---- MODULE Spec2Model ----
(***************************************************************************)
(* Content pipeline of kalshi-news: the article store (cache.py), the      *)
(* article generator's id scheme (article_generator.py) and the three      *)
(* tasks of scheduler.py (scheduled generation, manual refresh, resolution *)
(* check), modelled as a state machine.                                    *)
(*                                                                         *)
(* Abstractions, all stated where they are made:                           *)
(*  - wall-clock time is the integer `now`; an hour bucket is HourLen      *)
(*    ticks; a close_time is an instant on the same axis;                  *)
(*  - md5(ticker-hour)[:12] is modelled by the pair <<ticker, hour>>       *)
(*    (injective: hash collisions are not modelled);                       *)
(*  - an article keeps the fields the tasks read or write; text fields     *)
(*    (title, teaser, content, ...) are left out of this record;           *)
(*  - a storage write that fails reports False and leaves the store as it  *)
(*    was; the generation tasks meet this outcome ("store_fail") in        *)
(*    SpecGen and SpecTwin, and every other write succeeds.                *)
(***************************************************************************)
EXTENDS Integers, Sequences, FiniteSets, TLC

VARIABLES
    backend,    \* config.CACHE_TYPE: which CacheBackend get_cache() built
    articles,   \* the stored collection, most recent first
    now,        \* wall clock
    gen,        \* generate_articles_job: locals and position
    man,        \* manual_refresh: locals and position
    res,        \* check_resolutions_job: locals and position
    cap,        \* SpecCap, SpecList: the ids upserted so far, in order
    up,         \* SpecConc only: the two add_article calls in flight
    stores,     \* SpecStore only: one stored collection per backend
    hist,       \* SpecStore, SpecExt: the items upserted so far, in order;
                \* SpecParse: the calls of the LLM so far, in order
    twin,       \* SpecTwin only: the inputs and the first run's results
    kv,         \* SpecKV, SpecFail: the key/value entries of the backend
    call,       \* SpecFail only: the last storage call and what it returned
    src         \* SpecSource, SpecScore, SpecRank: the market source's
                \* responses and what the scorer made of them

vars == <<backend, articles, now, gen, man, res, cap, up, stores, hist,
          twin, kv, call, src>>

----------------------------------------------------------------------------
(* Bounds of the model *)

MaxTime == 2            \* the clock runs 0..MaxTime
HourLen == 2            \* clock ticks per generation-hour bucket
MaxMarkets == 4         \* longest candidate list the source returns
MaxRows == 51           \* SpecDurable: rows given to the durable backend
MaxUpserts == 55        \* SpecCap: distinct ids upserted
MaxRepeats == 2         \* SpecCap: upserts under an id upserted before
MaxStoreOps == 3        \* SpecStore: upserts in a row
MaxCandidates == 3      \* SpecRank: markets handed to the scorer
MaxTasks == 4           \* SpecFrame: tasks run one after another
MaxSourceMarkets == 16  \* SpecLive: markets the source has to offer

(* Program constants *)

MAX_ARTICLES_TO_GENERATE == 3
MAX_RESULTS_ARTICLES_TO_GENERATE == 2
max_articles == 50
CACHE_TTL == 3600
MAX_MARKETS_TO_FETCH == 15

----------------------------------------------------------------------------
(* Inputs *)

Backends == {"file", "redis", "postgres"}

Tickers == {"T1", "T2", "T3", "T4"}

\* Markets of SpecDurable: as many distinct markets as the durable backend
\* is given rows.
DurableMarkets ==
    <<"M01", "M02", "M03", "M04", "M05", "M06", "M07", "M08", "M09", "M10",
      "M11", "M12", "M13", "M14", "M15", "M16", "M17", "M18", "M19", "M20",
      "M21", "M22", "M23", "M24", "M25", "M26", "M27", "M28", "M29", "M30",
      "M31", "M32", "M33", "M34", "M35", "M36", "M37", "M38", "M39", "M40",
      "M41", "M42", "M43", "M44", "M45", "M46", "M47", "M48", "M49", "M50",
      "M51", "M52", "M53", "M54", "M55", "M56", "M57", "M58", "M59", "M60">>

\* close_time of a market, as the source reports it: T3 and T4 close after
\* the modelled horizon, every other market inside it.
CloseTime(t) ==
    CASE t = "T1"           -> 0
      [] t \in {"T3", "T4"} -> MaxTime + 1
      [] OTHER              -> 1

\* The markets that close inside the modelled horizon.
ClosingTickers == {"T1", "T2"}

RECURSIVE SeqsOfLen(_, _)
SeqsOfLen(S, n) ==
    IF n = 0 THEN {<<>>}
    ELSE {Append(s, t) : s \in SeqsOfLen(S, n - 1), t \in S}

IsInjective(s) == \A i, j \in 1..Len(s) : s[i] = s[j] => i = j

\* What get_trending_markets may return: a ranked list of distinct markets
\* of S, at most MaxMarkets of them.
MarketLists(S) ==
    {s \in UNION {SeqsOfLen(S, n) : n \in 0..MaxMarkets} : IsInjective(s)}

RECURSIVE SubSeqsOf(_)
SubSeqsOf(s) ==
    IF s = <<>> THEN {<<>>}
    ELSE LET r == SubSeqsOf(Tail(s)) IN r \cup {<<Head(s)>> \o x : x \in r}

\* SpecGen: the source ranks the four markets in one order and returns any
\* selection of them in that order, at most MaxMarkets of them.
RankedLists ==
    {s \in SubSeqsOf(<<"T1", "T2", "T3", "T4">>) : Len(s) <= MaxMarkets}

\* What enrich_market_data, generate_article and add_article do for one
\* candidate: an article that is stored ("ok"), an article whose write
\* add_article reports as failed by returning False ("store_fail"), no
\* article ("none"), an exception ("raise").
GenOutcomes == {"ok", "store_fail", "none", "raise"}

\* The outcomes with a storage that accepts every write.
WriteOkOutcomes == GenOutcomes \ {"store_fail"}
ResOutcomes == {"ok", "fetch_fail", "no_result", "gen_fail"}

----------------------------------------------------------------------------
(* Articles and ids *)

NoneVal == <<>>

Min(a, b) == IF a < b THEN a ELSE b

Take(s, n) == SubSeq(s, 1, Min(n, Len(s)))

\* Mutant: the timestamp of the id names the instant, not its hour.
_generate_article_id_ByInstant(ticker, t) == <<ticker, t>>

\* Mutant: the id names the ticker alone.
_generate_article_id_TickerOnly(ticker, t) == <<ticker, 0>>

\* article_generator.py 325-330: the digest of the ticker and the hour.
_generate_article_id(ticker, t) == <<ticker, t \div HourLen>>

generate_article(ticker, t) ==
    [id                  |-> _generate_article_id(ticker, t),
     article_type        |-> "analysis",
     market_ticker       |-> ticker,
     status              |-> "active",
     close_time          |-> CloseTime(ticker),
     original_article_id |-> NoneVal,
     results_article_id  |-> NoneVal]

generate_results_article(ticker, t, original_article) ==
    [id                  |-> Append(_generate_article_id(ticker, t), "-results"),
     article_type        |-> "results",
     market_ticker       |-> ticker,
     status              |-> "resolved",
     close_time          |-> CloseTime(ticker),
     original_article_id |-> original_article.id,
     results_article_id  |-> NoneVal]

Ids(s) == {s[i].id : i \in 1..Len(s)}

----------------------------------------------------------------------------
(* Storage backends (cache.py).  `store` is the backend's content: the     *)
(* articles list of articles.json / of the Redis key, or the rows of the   *)
(* articles table ordered by created_at DESC.                              *)

FileCache_get_all_articles(store) == store

FileCache_save_articles(store, arts) == arts

\* Mutant: the item of the same id is not dropped before the insert.
FileCache_upserted_NoDedup(listing, article) ==
    Take(<<article>> \o listing, max_articles)

\* Mutant: the list is cut to max_articles before the insert, not after.
FileCache_upserted_CutFirst(listing, article) ==
    <<article>> \o
        Take(SelectSeq(listing, LAMBDA a : a.id # article.id), max_articles)

\* add_article, lines 145-152: drop the item of the same id, insert at the
\* front, keep the first max_articles.
FileCache_upserted(listing, article) ==
    Take(<<article>> \o SelectSeq(listing, LAMBDA a : a.id # article.id),
         max_articles)

FileCache_add_article(store, article) ==
    FileCache_save_articles(store,
        FileCache_upserted(FileCache_get_all_articles(store), article))

RedisCache_get_all_articles(store) == store

RedisCache_save_articles(store, arts) == arts

\* add_article, lines 234-236
RedisCache_upserted(listing, article) ==
    Take(<<article>> \o SelectSeq(listing, LAMBDA a : a.id # article.id), 50)

RedisCache_add_article(store, article) ==
    RedisCache_save_articles(store,
        RedisCache_upserted(RedisCache_get_all_articles(store), article))

\* Mutant: ORDER BY created_at ASC.
PostgresCache_get_all_articles_Ascending(store) ==
    [i \in 1..Min(50, Len(store)) |-> store[Len(store) + 1 - i]]

\* SELECT ... ORDER BY created_at DESC LIMIT 50
PostgresCache_get_all_articles(store) == Take(store, 50)

\* The columns of the articles table that add_article fills (lines 426-428);
\* every other key of an article goes into the data column (lines 452-456).
Columns ==
    {"id", "article_type", "title", "teaser", "content", "market_ticker",
     "market_title", "probability", "outcome", "generated_at", "close_time",
     "volume", "status", "word_count", "original_article_id"}

\* Mutant: the conflict clause leaves the title alone.
UpdatedOnConflict_NoTitle == {"teaser", "content", "status"}

\* ON CONFLICT (id) DO UPDATE SET title, teaser, content, status (and data).
UpdatedOnConflict == {"title", "teaser", "content", "status"}

\* article.get(f): None for a key the article does not carry.
Field(article, f) == IF f \in DOMAIN article THEN article[f] ELSE NoneVal

\* The values handed to the columns of the INSERT, lines 437-451.  (A row
\* keeps the columns its article carries: the columns an article of the
\* model leaves out are left out of its row.)
ColumnsOf(article) == [f \in DOMAIN article \cap Columns |-> article[f]]

\* lines 452-456: every key of the article that is no column, with its
\* value, is what the data column is given.
DataOf(article) == [k \in DOMAIN article \ Columns |-> article[k]]

\* Mutant: the conflict clause leaves the data column alone.
DataOnConflict_Kept(old, excluded) == old

\* line 435: data = EXCLUDED.data
DataOnConflict(old, excluded) == excluded

\* lines 379-398, 480-500: the article a SELECT builds from a row: its
\* columns, updated with the data column when that is not empty.
RowAsArticle(columns, data) ==
    IF DOMAIN data = {} THEN columns ELSE data @@ columns

\* The row after an insert that met a row of the same id, as it is read
\* back: the columns named in the conflict clause and the data column take
\* the values of the article, the other columns and created_at keep the
\* values of the first insert.
OnConflictUpdate(row, article) ==
    RowAsArticle(
        [f \in DOMAIN row \cap Columns |->
            IF f \in UpdatedOnConflict THEN Field(article, f) ELSE row[f]],
        DataOnConflict(DataOf(row), DataOf(article)))

\* INSERT ... ON CONFLICT (id) DO UPDATE: a new id is a new row, the newest
\* by created_at; a stored id keeps its row and its place.
PostgresCache_add_article(store, article) ==
    IF \E i \in 1..Len(store) : store[i].id = article.id
    THEN [i \in 1..Len(store) |->
            IF store[i].id = article.id
            THEN OnConflictUpdate(store[i], article)
            ELSE store[i]]
    ELSE <<RowAsArticle(ColumnsOf(article), DataOf(article))>> \o store

\* for article in articles: self.add_article(article), written as the result
\* of that loop: an id the table does not hold is inserted by its first
\* occurrence in arts (a later insert is a newer row), every later occurrence
\* and every id the table holds is an update, and the last update stands.
PostgresCache_save_articles(store, arts) ==
    LET n == Len(arts)
        last(id) == CHOOSE j \in 1..n :
                        /\ arts[j].id = id
                        /\ \A k \in (j + 1)..n : arts[k].id # id
        written(row) == OnConflictUpdate(row, arts[last(row.id)])
        inserted == {j \in 1..n :
                        /\ arts[j].id \notin Ids(store)
                        /\ \A k \in 1..(j - 1) : arts[k].id # arts[j].id}
        newest(k) == CHOOSE j \in inserted :
                         Cardinality({m \in inserted : m > j}) = k - 1
    IN  [k \in 1..Cardinality(inserted) |-> written(arts[newest(k)])]
        \o [i \in 1..Len(store) |->
               IF store[i].id \in Ids(arts) THEN written(store[i])
               ELSE store[i]]

get_all_articles(b, store) ==
    CASE b = "file"     -> FileCache_get_all_articles(store)
      [] b = "redis"    -> RedisCache_get_all_articles(store)
      [] b = "postgres" -> PostgresCache_get_all_articles(store)

add_article(b, store, article) ==
    CASE b = "file"     -> FileCache_add_article(store, article)
      [] b = "redis"    -> RedisCache_add_article(store, article)
      [] b = "postgres" -> PostgresCache_add_article(store, article)

save_articles(b, store, arts) ==
    CASE b = "file"     -> FileCache_save_articles(store, arts)
      [] b = "redis"    -> RedisCache_save_articles(store, arts)
      [] b = "postgres" -> PostgresCache_save_articles(store, arts)

get_article_by_id(b, store, id) ==
    LET l == IF b = "postgres" THEN store ELSE get_all_articles(b, store)
        hits == {i \in 1..Len(l) : l[i].id = id}
    IN IF hits = {} THEN NoneVal
       ELSE l[CHOOSE i \in hits : \A j \in hits : i <= j]

----------------------------------------------------------------------------
(* Task positions.  A task is "idle" before its first run, "loop" while    *)
(* its for-loop runs and "done" once it has returned; the locals of a      *)
(* returned task stay readable until the next task starts, and are gone    *)
(* then.                                                                   *)

GenIdle == [pc |-> "idle", markets |-> <<>>, i |-> 1, existing |-> {},
            count |-> 0, invoked |-> {}, skipped |-> {}, stored |-> {},
            pre |-> <<>>]

ManIdle == [pc |-> "idle", markets |-> <<>>, i |-> 1, count |-> 0,
            invoked |-> {}, stored |-> {}, pre |-> <<>>, ret |-> 0]

ResIdle == [pc |-> "idle", articles |-> <<>>, i |-> 1, results_generated |-> 0,
            articles_updated |-> FALSE, flipped |-> {}, linked |-> {},
            failed |-> {}, pre |-> <<>>, t0 |-> 0]

Running(p) == p.pc = "loop"

----------------------------------------------------------------------------
(* generate_articles_job (scheduler.py 21-80) *)

\* Mutant: only items with status active count as existing.
ExistingAnalysisTickers_ActiveOnly(listing) ==
    {listing[k].market_ticker :
        k \in {j \in 1..Len(listing) :
                  /\ listing[j].article_type = "analysis"
                  /\ listing[j].status = "active"}}

\* existing_analysis_tickers, scheduler.py 42-46
ExistingAnalysisTickers(listing) ==
    {listing[k].market_ticker :
        k \in {j \in 1..Len(listing) : listing[j].article_type = "analysis"}}

\* Mutant: the budget test is off by one.
BudgetExhausted_OffByOne(articles_generated) ==
    articles_generated > MAX_ARTICLES_TO_GENERATE

\* line 50: the per-cycle budget is used up.
BudgetExhausted(articles_generated) ==
    articles_generated >= MAX_ARTICLES_TO_GENERATE

\* lines 34-48: fetch the candidates, return when there are none, else read
\* the listing once and enter the loop.
generate_articles_job_begin(ms) ==
    /\ ~Running(gen)
    /\ gen' = IF ms = <<>>
              THEN [GenIdle EXCEPT !.pc = "done", !.pre = articles]
              ELSE [GenIdle EXCEPT
                      !.pc = "loop",
                      !.markets = ms,
                      !.existing = ExistingAnalysisTickers(
                                       get_all_articles(backend, articles)),
                      !.pre = articles]
    /\ man' = IF Running(man) THEN man ELSE ManIdle
    /\ res' = IF Running(res) THEN res ELSE ResIdle

generate_articles_job_start(ms) ==
    /\ generate_articles_job_begin(ms)
    /\ UNCHANGED <<backend, articles, now, cap, up, stores, hist,
                 twin, kv, call, src>>

\* lines 49-77: one iteration of the for-loop, or its exit: what it does to
\* the task's locals and to the store.
generate_articles_job_body(outcome) ==
    /\ Running(gen)
    /\ IF gen.i > Len(gen.markets) \/ BudgetExhausted(gen.count)
       THEN /\ gen' = [gen EXCEPT !.pc = "done"]
            /\ UNCHANGED articles
       ELSE LET ticker == gen.markets[gen.i] IN
            IF ticker \in gen.existing
            THEN /\ gen' = [gen EXCEPT !.i = @ + 1, !.skipped = @ \cup {gen.i}]
                 /\ UNCHANGED articles
            ELSE IF outcome = "ok"
                 THEN /\ articles' = add_article(backend, articles,
                                                 generate_article(ticker, now))
                      /\ gen' = [gen EXCEPT !.i = @ + 1, !.count = @ + 1,
                                            !.invoked = @ \cup {gen.i},
                                            !.stored = @ \cup {gen.i}]
                 ELSE IF outcome = "store_fail"
                 THEN \* lines 69-70: the value of add_article is not read
                      /\ gen' = [gen EXCEPT !.i = @ + 1, !.count = @ + 1,
                                            !.invoked = @ \cup {gen.i}]
                      /\ UNCHANGED articles
                 ELSE /\ gen' = [gen EXCEPT !.i = @ + 1,
                                            !.invoked = @ \cup {gen.i}]
                      /\ UNCHANGED articles

generate_articles_job_step(outcome) ==
    /\ generate_articles_job_body(outcome)
    /\ UNCHANGED <<backend, now, man, res, cap, up, stores, hist,
                 twin, kv, call, src>>

----------------------------------------------------------------------------
(* manual_refresh (scheduler.py 160-197) *)

\* line 179: the slice of the candidates the loop runs over.
ManualBatch(ms) == Take(ms, MAX_ARTICLES_TO_GENERATE)

manual_refresh_begin(ms) ==
    /\ ~Running(man)
    /\ man' = IF ms = <<>>
              THEN [ManIdle EXCEPT !.pc = "done", !.pre = articles]
              ELSE [ManIdle EXCEPT
                      !.pc = "loop",
                      !.markets = ManualBatch(ms),
                      !.pre = articles]
    /\ gen' = IF Running(gen) THEN gen ELSE GenIdle
    /\ res' = IF Running(res) THEN res ELSE ResIdle

manual_refresh_start(ms) ==
    /\ manual_refresh_begin(ms)
    /\ UNCHANGED <<backend, articles, now, cap, up, stores, hist,
                 twin, kv, call, src>>

\* lines 179-193: one iteration of the for-loop, or the return: what it
\* does to the task's locals and to the store.
manual_refresh_body(outcome) ==
    /\ Running(man)
    /\ IF man.i > Len(man.markets)
       THEN /\ man' = [man EXCEPT !.pc = "done", !.ret = man.count]
            /\ UNCHANGED articles
       ELSE LET ticker == man.markets[man.i] IN
            IF outcome = "ok"
            THEN /\ articles' = add_article(backend, articles,
                                            generate_article(ticker, now))
                 /\ man' = [man EXCEPT !.i = @ + 1, !.count = @ + 1,
                                       !.invoked = @ \cup {man.i},
                                       !.stored = @ \cup {man.i}]
            ELSE IF outcome = "store_fail"
            THEN \* lines 185-186: the value of add_article is not read
                 /\ man' = [man EXCEPT !.i = @ + 1, !.count = @ + 1,
                                       !.invoked = @ \cup {man.i}]
                 /\ UNCHANGED articles
            ELSE /\ man' = [man EXCEPT !.i = @ + 1,
                                       !.invoked = @ \cup {man.i}]
                 /\ UNCHANGED articles

manual_refresh_step(outcome) ==
    /\ manual_refresh_body(outcome)
    /\ UNCHANGED <<backend, now, gen, res, cap, up, stores, hist,
                 twin, kv, call, src>>

----------------------------------------------------------------------------
(* check_resolutions_job (scheduler.py 83-157) *)

\* Mutant: the status of the item is not looked at.
IsDue_AnyStatus(article, t) ==
    /\ article.article_type # "results"
    /\ t > article.close_time

\* Mutant: the item is due from the instant of its close_time on.
IsDue_AtClose(article, t) ==
    /\ article.article_type # "results"
    /\ article.status # "resolved"
    /\ t >= article.close_time

\* lines 104-120: the item is an analysis item not yet resolved whose
\* close_time has passed.
IsDue(article, t) ==
    /\ article.article_type # "results"
    /\ article.status # "resolved"
    /\ t > article.close_time

\* Mutant: the flip also names the item as its own origin.
MarkResolved_SelfOrigin(article) ==
    [article EXCEPT !.status = "resolved", !.original_article_id = article.id]

\* line 122
MarkResolved(article) == [article EXCEPT !.status = "resolved"]

\* line 141
LinkResults(article, results_article) ==
    [article EXCEPT !.results_article_id = results_article["id"]]

\* Mutant: a failed results generation takes the status flip back.
OnResultsFailure_Rollback(article, marked) == article

\* lines 130-145: the fetch returned nothing, carried no result, the
\* generator returned None or something raised: the handler only logs, and
\* the item stays as line 122 left it.
OnResultsFailure(article, marked) == marked

\* line 127
ResultsBudgetLeft(results_generated) ==
    results_generated < MAX_RESULTS_ARTICLES_TO_GENERATE

\* lines 95-100: read the listing, return when it is empty.
check_resolutions_job_begin ==
    /\ ~Running(res)
    /\ LET listing == get_all_articles(backend, articles) IN
       res' = IF listing = <<>>
              THEN [ResIdle EXCEPT !.pc = "done", !.pre = articles, !.t0 = now]
              ELSE [ResIdle EXCEPT !.pc = "loop", !.articles = listing,
                                   !.pre = articles, !.t0 = now]
    /\ gen' = IF Running(gen) THEN gen ELSE GenIdle
    /\ man' = IF Running(man) THEN man ELSE ManIdle

check_resolutions_job_start ==
    /\ check_resolutions_job_begin
    /\ UNCHANGED <<backend, articles, now, cap, up, stores, hist,
                 twin, kv, call, src>>

\* lines 150-152: the write-back that ends the job.
check_resolutions_job_finish ==
    /\ articles' = IF res.articles_updated
                   THEN save_articles(backend, articles, res.articles)
                   ELSE articles
    /\ res' = [res EXCEPT !.pc = "done"]

\* article_generator.py 273-275: the title, teaser and content of an item
\* are what the LLM wrote; `written` is that text as a record, or NoneVal
\* where the text plays no part.
WrittenBy(written, article) ==
    IF written = NoneVal THEN article ELSE written @@ article

\* lines 102-152: one iteration of the for-loop; after the last one, the
\* write-back: what it does to the task's locals and to the store.
\* `outcome` is what the resolution fetch and the results
\* generation do for this item when they are attempted.
\* `written` is the text of the results item when one is generated.
check_resolutions_job_with(outcome, written) ==
    /\ Running(res)
    /\ IF res.i > Len(res.articles)
       THEN check_resolutions_job_finish
       ELSE LET article == res.articles[res.i] IN
            IF ~IsDue(article, now)
            THEN /\ res' = [res EXCEPT !.i = @ + 1]
                 /\ UNCHANGED articles
            ELSE LET marked == MarkResolved(article) IN
                 IF ResultsBudgetLeft(res.results_generated)
                 THEN IF outcome = "ok"
                      THEN LET results_article ==
                                   WrittenBy(written,
                                       generate_results_article(
                                           article.market_ticker, now, marked))
                           IN /\ articles' = add_article(backend, articles,
                                                         results_article)
                              /\ res' = [res EXCEPT
                                   !.articles[res.i] =
                                       LinkResults(marked, results_article),
                                   !.i = @ + 1,
                                   !.articles_updated = TRUE,
                                   !.results_generated = @ + 1,
                                   !.flipped = @ \cup {res.i},
                                   !.linked = @ \cup {res.i}]
                      ELSE /\ res' = [res EXCEPT
                                   !.articles[res.i] =
                                       OnResultsFailure(article, marked),
                                   !.i = @ + 1,
                                   !.articles_updated = TRUE,
                                   !.flipped = @ \cup {res.i},
                                   !.failed = @ \cup {res.i}]
                           /\ UNCHANGED articles
                 ELSE /\ res' = [res EXCEPT
                              !.articles[res.i] = marked,
                              !.i = @ + 1,
                              !.articles_updated = TRUE,
                              !.flipped = @ \cup {res.i}]
                      /\ UNCHANGED articles

\* The same with the results item's text left out.
check_resolutions_job_body(outcome) ==
    check_resolutions_job_with(outcome, NoneVal)

check_resolutions_job_step(outcome) ==
    /\ check_resolutions_job_body(outcome)
    /\ UNCHANGED <<backend, now, gen, man, cap, up, stores, hist,
                 twin, kv, call, src>>

----------------------------------------------------------------------------
(* The clock *)

Tick ==
    /\ now < MaxTime
    /\ now' = now + 1
    /\ UNCHANGED <<backend, articles, gen, man, res, cap, up, stores, hist,
                 twin, kv, call, src>>

----------------------------------------------------------------------------
(* Spec: the three tasks of scheduler.py over one store, one task at a     *)
(* time; the clock advances between any two steps.                         *)

NoUpserts == [start |-> <<>>, task |-> <<>>]

\* The variables of the other specifications, at rest.
NoStores == [b \in Backends |-> <<>>]
NoTwin == <<>>
NoEntries == <<>>
NoCall == <<>>
NoSource == <<>>

NoTaskRunning == ~Running(gen) /\ ~Running(man) /\ ~Running(res)

Init ==
    /\ backend \in Backends
    /\ articles = <<>>
    /\ now = 0
    /\ gen = GenIdle
    /\ man = ManIdle
    /\ res = ResIdle
    /\ cap = <<>>
    /\ stores = NoStores
    /\ hist = <<>>
    /\ twin = NoTwin
    /\ kv = NoEntries
    /\ call = NoCall
    /\ src = NoSource
    /\ up = NoUpserts

Next ==
    \/ \E ms \in MarketLists(ClosingTickers) :
           NoTaskRunning /\ generate_articles_job_start(ms)
    \/ \E o \in WriteOkOutcomes : generate_articles_job_step(o)
    \/ \E ms \in MarketLists(ClosingTickers) :
           NoTaskRunning /\ manual_refresh_start(ms)
    \/ \E o \in WriteOkOutcomes : manual_refresh_step(o)
    \/ NoTaskRunning /\ check_resolutions_job_start
    \/ \E o \in ResOutcomes : check_resolutions_job_step(o)
    \/ Tick

Spec == Init /\ [][Next]_vars

----------------------------------------------------------------------------
(* Properties of the tasks, checked under Spec *)

Listing == get_all_articles(backend, articles)

Stored(id) == get_article_by_id(backend, articles, id)

ResDone == res.pc = "done"

\* C1: after a resolution-check cycle, every due item for which results
\* generation succeeded is stored with results_article_id naming a stored
\* results item whose original_article_id names it back.
C1_ReciprocallyLinked ==
    ResDone =>
        \A i \in res.linked :
            LET a == Stored(res.articles[i].id) IN
            /\ a # NoneVal
            /\ \E k \in 1..Len(Listing) :
                  /\ Listing[k].article_type = "results"
                  /\ Listing[k].original_article_id = a.id
                  /\ a.results_article_id = Listing[k].id

\* C2: the status stored under an id never goes from resolved to active.
C2_NeverReactivated ==
    [][\A id \in Ids(articles) :
          (/\ get_article_by_id(backend, articles, id).status = "resolved"
           /\ id \in Ids(articles'))
          => get_article_by_id(backend, articles', id).status # "active"]_vars

ActiveAnalysis(store, t) ==
    {i \in 1..Len(store) : /\ store[i].article_type = "analysis"
                           /\ store[i].status = "active"
                           /\ store[i].market_ticker = t}

\* C3: at most one stored analysis item with status active per market_ticker.
C3_OneActivePerTicker ==
    \A t \in Tickers : Cardinality(ActiveAnalysis(articles, t)) <= 1

\* C4: the ids of the stored collection are pairwise distinct.
C4_DistinctIds ==
    \A i, j \in 1..Len(articles) : articles[i].id = articles[j].id => i = j

\* C4 witness: a manual refresh that upserted under an id already stored has
\* returned, and the store holds an item a resolution write-back flipped.
C4_Witness ==
    /\ man.pc = "done"
    /\ Cardinality(man.stored) > Cardinality(Ids(articles) \ Ids(man.pre))
    /\ Len(articles) >= 2
    /\ \E i \in 1..Len(articles) : /\ articles[i].article_type = "analysis"
                                   /\ articles[i].status = "resolved"

\* C8: a due item whose results generation was attempted and failed is, after
\* the cycle, stored as resolved with results_article_id unset, and the cycle
\* stored no results item for it.
C8_FailureKeepsFlip ==
    ResDone =>
        \A i \in res.failed :
            LET a == Stored(res.articles[i].id) IN
            /\ a # NoneVal
            /\ a.status = "resolved"
            /\ a.results_article_id = NoneVal
            /\ \A k \in 1..Len(articles) :
                  (/\ articles[k].article_type = "results"
                   /\ articles[k].original_article_id = a.id)
                  => \E m \in 1..Len(res.pre) : res.pre[m] = articles[k]

\* C8 witness: a finished cycle in which one due item failed and another got
\* its results item.
C8_Witness ==
    /\ ResDone
    /\ res.failed # {}
    /\ res.linked # {}

GenVisited == gen.skipped \cup gen.invoked

GenListingAtStart == get_all_articles(backend, gen.pre)

HasAnalysisItem(listing, t) ==
    \E k \in 1..Len(listing) : /\ listing[k].article_type = "analysis"
                               /\ listing[k].market_ticker = t

\* C10 as stated: in a scheduled generation cycle a candidate is excluded
\* (the generator is not invoked for it) exactly when its ticker carries a
\* stored analysis item with status active.
C10_ExcludedIffActive ==
    gen.pc \in {"loop", "done"} =>
        \A i \in GenVisited :
            (i \in gen.skipped) <=>
                (ActiveAnalysis(GenListingAtStart, gen.markets[i]) # {})

\* C10 as amended: in a scheduled generation cycle the candidates reached
\* before the budget is used up are each either excluded or handed to the
\* generator, and the excluded ones are exactly those whose ticker carries
\* an analysis item of any status, active or resolved, in the listing read at
\* the start of the cycle.
C10_ExcludedIffAnalysis ==
    gen.pc \in {"loop", "done"} =>
        /\ GenVisited = 1..(gen.i - 1)
        /\ gen.skipped \cap gen.invoked = {}
        /\ \A i \in GenVisited :
              (i \in gen.skipped) <=>
                  HasAnalysisItem(GenListingAtStart, gen.markets[i])

\* C10 witness: a finished cycle that excluded a ticker carrying only a
\* resolved analysis item and invoked the generator for another ticker.
C10_Witness ==
    /\ gen.pc = "done"
    /\ gen.invoked # {}
    /\ \E i \in gen.skipped :
          ActiveAnalysis(GenListingAtStart, gen.markets[i]) = {}

\* C11: in a generation cycle, scheduled or manual, a candidate that failed
\* (no article, an exception, a storage write reported as failed) is
\* skipped: the loop goes on to the later candidates and ends only when the
\* candidates or the budget are used up, the budget counts the stored
\* candidates only, and what the store held keeps its id in the store.
C11_FailureIsSkipped ==
    /\ gen.pc \in {"loop", "done"} =>
          /\ gen.count = Cardinality(gen.stored)
          /\ gen.pc = "done" =>
                \/ gen.i > Len(gen.markets)
                \/ BudgetExhausted(Cardinality(gen.stored))
          /\ Ids(gen.pre) \subseteq Ids(articles)
    /\ man.pc \in {"loop", "done"} =>
          /\ man.count = Cardinality(man.stored)
          /\ man.pc = "done" => man.i > Len(man.markets)
          /\ Ids(man.pre) \subseteq Ids(articles)

\* C19: a step of a task removes an id from the stored collection only when
\* the collection is at the cap, and the id removed is then that of the
\* oldest item; no other step of a generation cycle, a manual trigger or a
\* resolution-check cycle, its final write-back included, removes an id.
C19_RemovedOnlyByEviction ==
    [][\A id \in Ids(articles) \ Ids(articles') :
          /\ Len(articles) = max_articles
          /\ id = articles[Len(articles)].id]_vars

\* C12: the value the manual trigger returns is the number of items the call
\* stored; a write reported as failed is not counted, and the value is 0
\* when there was no candidate.
C12_ReturnCountsStored ==
    man.pc = "done" => man.ret = Cardinality(man.stored)

----------------------------------------------------------------------------
(* SpecDurable: the durable backend filled past the listing's query limit. *)
(* Scheduled generation cycles store one analysis item each, every one for *)
(* a market not covered yet and still open; resolution-check cycles run in *)
(* between and after the markets have closed.  The clock advances between  *)
(* cycles.                                                                 *)

InitDurable ==
    /\ backend = "postgres"
    /\ articles = <<>>
    /\ now = 0
    /\ gen = GenIdle
    /\ man = ManIdle
    /\ res = ResIdle
    /\ cap = <<>>
    /\ stores = NoStores
    /\ hist = <<>>
    /\ twin = NoTwin
    /\ kv = NoEntries
    /\ call = NoCall
    /\ src = NoSource
    /\ up = NoUpserts

NextDurable ==
    \/ /\ NoTaskRunning
       /\ Len(articles) < MaxRows
       /\ now <= CloseTime(DurableMarkets[Len(articles) + 1])
       /\ generate_articles_job_start(<<DurableMarkets[Len(articles) + 1]>>)
    \/ generate_articles_job_step("ok")
    \/ NoTaskRunning /\ check_resolutions_job_start
    \/ check_resolutions_job_step("fetch_fail")
    \/ NoTaskRunning /\ Tick

SpecDurable == InitDurable /\ [][NextDurable]_vars

\* C7: when a resolution-check cycle has run to its end, every analysis item
\* that was stored as active with its close_time passed when the cycle began
\* is stored with status resolved.
C7_DueItemsResolved ==
    ResDone =>
        \A k \in 1..Len(res.pre) :
            IsDue(res.pre[k], res.t0) =>
                LET a == Stored(res.pre[k].id) IN
                /\ a # NoneVal
                /\ a.status = "resolved"

----------------------------------------------------------------------------
(* SpecGen: generation cycles, scheduled and manual, over candidate lists  *)
(* longer than the per-cycle budget, within one hour bucket.               *)

InitGen ==
    /\ backend \in Backends
    /\ articles = <<>>
    /\ now = 0
    /\ gen = GenIdle
    /\ man = ManIdle
    /\ res = ResIdle
    /\ cap = <<>>
    /\ stores = NoStores
    /\ hist = <<>>
    /\ twin = NoTwin
    /\ kv = NoEntries
    /\ call = NoCall
    /\ src = NoSource
    /\ up = NoUpserts

NextGen ==
    \/ \E ms \in RankedLists : NoTaskRunning /\ generate_articles_job_start(ms)
    \/ \E o \in GenOutcomes : generate_articles_job_step(o)
    \/ \E ms \in RankedLists : NoTaskRunning /\ manual_refresh_start(ms)
    \/ \E o \in GenOutcomes : manual_refresh_step(o)

SpecGen == InitGen /\ [][NextGen]_vars

\* The analysis items in the store that were not in `pre`.
NewlyStored(pre) ==
    {articles[i].id :
        i \in {j \in 1..Len(articles) :
                  /\ articles[j].article_type = "analysis"
                  /\ articles[j].id \notin Ids(pre)}}

\* C9: during and after every generation cycle, scheduled or manual, the
\* analysis items stored by the cycle number at most
\* MAX_ARTICLES_TO_GENERATE.
C9_AtMostMaxPerCycle ==
    /\ gen.pc \in {"loop", "done"} =>
          /\ Cardinality(NewlyStored(gen.pre)) <= MAX_ARTICLES_TO_GENERATE
          /\ gen.count <= MAX_ARTICLES_TO_GENERATE
    /\ man.pc \in {"loop", "done"} =>
          /\ Cardinality(NewlyStored(man.pre)) <= MAX_ARTICLES_TO_GENERATE
          /\ man.count <= MAX_ARTICLES_TO_GENERATE

\* C9 witness: a scheduled cycle over more candidates than the budget has
\* returned with the budget used up and a candidate left over.
C9_Witness ==
    /\ gen.pc = "done"
    /\ Len(gen.markets) > MAX_ARTICLES_TO_GENERATE
    /\ Cardinality(NewlyStored(gen.pre)) = MAX_ARTICLES_TO_GENERATE
    /\ gen.i <= Len(gen.markets)

----------------------------------------------------------------------------
(* SpecCap: a sequence of upserts on a capped backend.  Each hour one new  *)
(* analysis item is upserted (a new id); once the store is one item short  *)
(* of the cap, an item may be upserted again under the id of the newest    *)
(* stored item, of the oldest stored item or of the item evicted last.     *)
(* `cap` is the sequence of the ids upserted.                              *)

upsertItem(article) ==
    /\ articles' = add_article(backend, articles, article)
    /\ cap' = Append(cap, article.id)

CapIds == {cap[i] : i \in 1..Len(cap)}

CapFresh ==
    /\ Cardinality(CapIds) < MaxUpserts
    /\ upsertItem(generate_article("T3", now))
    /\ now' = now + HourLen
    /\ UNCHANGED <<backend, gen, man, res, up, stores, hist,
                 twin, kv, call, src>>

CapCandidates ==
    LET stored  == Ids(articles)
        evicted == CapIds \ stored
    IN (IF articles = <<>> THEN {}
        ELSE {articles[1].id, articles[Len(articles)].id})
       \cup {x \in evicted : \A y \in evicted : y[2] <= x[2]}

CapAgain ==
    /\ Len(cap) - Cardinality(CapIds) < MaxRepeats
    /\ Len(articles) >= max_articles - 1
    /\ \E id \in CapCandidates :
          upsertItem(generate_article(id[1], id[2] * HourLen))
    /\ UNCHANGED <<backend, now, gen, man, res, up, stores, hist,
                 twin, kv, call, src>>

InitCap ==
    /\ backend \in {"file", "redis"}
    /\ articles = <<>>
    /\ now = 0
    /\ gen = GenIdle
    /\ man = ManIdle
    /\ res = ResIdle
    /\ cap = <<>>
    /\ stores = NoStores
    /\ hist = <<>>
    /\ twin = NoTwin
    /\ kv = NoEntries
    /\ call = NoCall
    /\ src = NoSource
    /\ up = NoUpserts

NextCap == CapFresh \/ CapAgain

SpecCap == InitCap /\ [][NextCap]_vars

\* The positions in `cap` that hold the last upsert of their id.
LastUpserts == {i \in 1..Len(cap) : \A j \in (i + 1)..Len(cap) : cap[j] # cap[i]}

\* C5: on a capped backend the collection never holds more than 50 items,
\* and an id is retained exactly when fewer than 50 other ids were upserted
\* after its last upsert; after 55 upserts of distinct ids the store holds
\* the last 50 of them.
C5_CapKeepsMostRecent ==
    /\ Len(articles) <= 50
    /\ \A i \in LastUpserts :
          (cap[i] \in Ids(articles)) <=>
              (Cardinality({cap[j] : j \in (i + 1)..Len(cap)}) < 50)
    /\ (Len(cap) = 55 /\ Cardinality(CapIds) = 55) =>
          /\ Len(articles) = 50
          /\ Ids(articles) = {cap[i] : i \in 6..55}

\* C5 witness: 55 upserts of distinct ids have been made; the five oldest
\* are gone and the 50 most recent are stored.
C5_Witness ==
    /\ Len(cap) = 55
    /\ Cardinality(CapIds) = 55
    /\ Len(articles) = 50
    /\ articles[1].id = cap[55]
    /\ articles[50].id = cap[6]
    /\ \A i \in 1..5 : cap[i] \notin Ids(articles)

----------------------------------------------------------------------------
(* SpecList: the upserts of SpecCap on each of the three backends; the     *)
(* durable backend keeps every row and lists the 50 newest.                *)

InitList ==
    /\ backend \in Backends
    /\ articles = <<>>
    /\ now = 0
    /\ gen = GenIdle
    /\ man = ManIdle
    /\ res = ResIdle
    /\ cap = <<>>
    /\ stores = NoStores
    /\ hist = <<>>
    /\ twin = NoTwin
    /\ kv = NoEntries
    /\ call = NoCall
    /\ src = NoSource
    /\ up = NoUpserts

NextList == CapFresh \/ CapAgain

SpecList == InitList /\ [][NextList]_vars

\* The positions in `cap` at which `id` was upserted.
UpsertsOf(id) == {k \in 1..Len(cap) : cap[k] = id}

\* C18: on every backend the listing holds at most 50 items, and of two
\* listed items that were each upserted once, the one inserted later comes
\* first.  (Stated for every two such items with no third between them in
\* the listing, which gives it for all of them.)
C18_MostRecentFirst ==
    LET once == {i \in 1..Len(Listing) :
                    Cardinality(UpsertsOf(Listing[i].id)) = 1}
        insertedAt(i) == CHOOSE k \in 1..Len(cap) : cap[k] = Listing[i].id
    IN  /\ Len(Listing) <= 50
        /\ \A i \in once : \A j \in once :
              (i < j /\ \A m \in once : ~(i < m /\ m < j))
              => insertedAt(i) > insertedAt(j)

\* C18 witness: the durable backend holds more rows than it lists, one of
\* them upserted twice.
C18_Witness ==
    /\ backend = "postgres"
    /\ Len(articles) > 50
    /\ Len(Listing) = 50
    /\ Len(cap) > Cardinality(CapIds)

----------------------------------------------------------------------------
(* SpecConc: two tasks call add_article at the same time on one backend.   *)
(* On the file and shared backends a call is a read of the whole list      *)
(* (cache.py 142, 233) followed by a write of the whole list (154, 237);   *)
(* on the durable backend it is one INSERT ... ON CONFLICT statement       *)
(* (425-458), which the database runs atomically.                          *)

Hours == 0..(MaxTime \div HourLen)

ConcAnalysisItems ==
    {generate_article(t, h * HourLen) : t \in ClosingTickers, h \in Hours}

\* What the tasks upsert: analysis items of the closing markets in each hour
\* bucket, and a results item.
ConcItems ==
    ConcAnalysisItems
    \cup {generate_results_article("T1", 0, generate_article("T1", 0))}

\* The stores the calls start from: what up to two earlier generations left.
ConcStores ==
    {<<>>}
    \cup {<<a>> : a \in ConcAnalysisItems}
    \cup {s \in {<<a, b>> : a \in ConcAnalysisItems, b \in ConcAnalysisItems} :
              s[1].id # s[2].id}

Upserters == 1..2

add_article_read(p) ==
    /\ up.task[p].pc = "call"
    /\ up' = [up EXCEPT !.task[p].pc = "read",
                        !.task[p].listing =
                            IF backend = "postgres" THEN <<>>
                            ELSE get_all_articles(backend, articles)]
    /\ UNCHANGED <<backend, articles, now, gen, man, res, cap, stores, hist,
                 twin, kv, call, src>>

add_article_write(p) ==
    /\ up.task[p].pc = "read"
    /\ articles' =
          CASE backend = "file" ->
                 FileCache_save_articles(articles,
                     FileCache_upserted(up.task[p].listing, up.task[p].article))
            [] backend = "redis" ->
                 RedisCache_save_articles(articles,
                     RedisCache_upserted(up.task[p].listing, up.task[p].article))
            [] backend = "postgres" ->
                 PostgresCache_add_article(articles, up.task[p].article)
    /\ up' = [up EXCEPT !.task[p].pc = "done"]
    /\ UNCHANGED <<backend, now, gen, man, res, cap, stores, hist,
                 twin, kv, call, src>>

InitConc ==
    /\ backend \in Backends
    /\ articles \in ConcStores
    /\ now = 0
    /\ gen = GenIdle
    /\ man = ManIdle
    /\ res = ResIdle
    /\ cap = <<>>
    /\ stores = NoStores
    /\ hist = <<>>
    /\ twin = NoTwin
    /\ kv = NoEntries
    /\ call = NoCall
    /\ src = NoSource
    /\ \E a1, a2 \in ConcItems :
          up = [start |-> articles,
                task  |-> [p \in Upserters |->
                             [pc |-> "call",
                              article |-> IF p = 1 THEN a1 ELSE a2,
                              listing |-> <<>>]]]

NextConc ==
    \/ \E p \in Upserters : add_article_read(p)
    \/ \E p \in Upserters : add_article_write(p)

SpecConc == InitConc /\ [][NextConc]_vars

Serial(first, second) ==
    add_article(backend,
                add_article(backend, up.start, up.task[first].article),
                up.task[second].article)

\* C6: when two concurrent upserts have both returned, the stored collection
\* is what running the two upserts one after the other, in one of the two
\* orders, leaves.
C6_UpsertsSerializable ==
    (\A p \in Upserters : up.task[p].pc = "done") =>
        articles \in {Serial(1, 2), Serial(2, 1)}

----------------------------------------------------------------------------
(* SpecTwin: the scheduled generation task and the manual trigger on the   *)
(* same inputs.  The scheduled task runs first; the stored collection is   *)
(* then put back to what it was and the manual trigger runs on the same    *)
(* candidate list, every candidate getting the same response in both runs. *)
(* `twin` keeps the inputs and what the first run did.                     *)

\* The stored collections the two runs start from.
TwinStores ==
    {<<>>,
     <<generate_article("T1", 0)>>,
     <<MarkResolved(generate_article("T2", 0))>>}

\* The response a task gets for the candidate it is at.
TwinOutcome(task) ==
    IF task.i <= Len(task.markets) THEN twin.resp[task.markets[task.i]]
    ELSE "none"

InvokedTickers(task) == {task.markets[i] : i \in task.invoked}

TwinSecondRun ==
    /\ twin.phase = "scheduled"
    /\ gen.pc = "done"
    /\ twin' = [twin EXCEPT !.phase = "manual",
                            !.scheduled_store = articles,
                            !.scheduled_invoked = InvokedTickers(gen)]
    /\ articles' = twin.store
    /\ UNCHANGED <<backend, now, gen, man, res, cap, up, stores, hist, kv, call, src>>

InitTwin ==
    /\ backend \in Backends
    /\ articles \in TwinStores
    /\ now = 0
    /\ gen = GenIdle
    /\ man = ManIdle
    /\ res = ResIdle
    /\ cap = <<>>
    /\ up = NoUpserts
    /\ stores = NoStores
    /\ hist = <<>>
    /\ kv = NoEntries
    /\ call = NoCall
    /\ src = NoSource
    /\ \E ms \in RankedLists, resp \in [Tickers -> GenOutcomes \ {"raise"}] :
          twin = [phase |-> "scheduled", store |-> articles, markets |-> ms,
                  resp |-> resp, scheduled_store |-> <<>>,
                  scheduled_invoked |-> {}]

NextTwin ==
    \/ /\ twin.phase = "scheduled" /\ gen.pc = "idle"
       /\ generate_articles_job_start(twin.markets)
    \/ generate_articles_job_step(TwinOutcome(gen))
    \/ TwinSecondRun
    \/ /\ twin.phase = "manual" /\ man.pc = "idle"
       /\ manual_refresh_start(twin.markets)
    \/ manual_refresh_step(TwinOutcome(man))

SpecTwin == InitTwin /\ [][NextTwin]_vars

\* C13: started from the same stored collection and given the same
\* candidates and the same responses, the manual trigger has invoked the
\* generator for the same candidates as the scheduled task and leaves the
\* same stored collection.
C13_ManualEqualsScheduled ==
    (twin.phase = "manual" /\ man.pc = "done") =>
        /\ InvokedTickers(man) = twin.scheduled_invoked
        /\ articles = twin.scheduled_store

----------------------------------------------------------------------------
(* SpecStore: the same sequence of upserts given to the three backends,    *)
(* each starting empty.  The items are analysis items of three markets     *)
(* that differ in a text field the durable backend updates on conflict     *)
(* (title) and in a column it does not (probability).  `stores` holds the  *)
(* three stored collections and `hist` the items upserted, in order.       *)

StoreTitles == {"first title", "second title"}
StoreProbabilities == {40, 60}

StoreItems ==
    {generate_article(t, 0) @@ [title |-> ti, probability |-> p] :
        t \in {"T1", "T2", "T3"}, ti \in StoreTitles, p \in StoreProbabilities}

\* cache.add_article(article), on each of the three backends.
add_article_each(article) ==
    /\ Len(hist) < MaxStoreOps
    /\ stores' = [b \in Backends |-> add_article(b, stores[b], article)]
    /\ hist' = Append(hist, article)
    /\ UNCHANGED <<backend, articles, now, gen, man, res, cap, up, twin, kv, call, src>>

InitStore ==
    /\ backend = "file"
    /\ articles = <<>>
    /\ now = 0
    /\ gen = GenIdle
    /\ man = ManIdle
    /\ res = ResIdle
    /\ cap = <<>>
    /\ up = NoUpserts
    /\ stores = NoStores
    /\ hist = <<>>
    /\ twin = NoTwin
    /\ kv = NoEntries
    /\ call = NoCall
    /\ src = NoSource

NextStore == \E article \in StoreItems : add_article_each(article)

SpecStore == InitStore /\ [][NextStore]_vars

\* The item upserted last under `id`.
LastUpserted(id) ==
    hist[CHOOSE j \in 1..Len(hist) :
            /\ hist[j].id = id
            /\ \A k \in (j + 1)..Len(hist) : hist[k].id # id]

RecordsUnder(store, id) == {i \in 1..Len(store) : store[i].id = id}

\* C14: on each of the three backends, an id that was upserted, once or
\* several times, has exactly one record, and the record holds the title of
\* the last upsert.
C14_OneRecordSecondTitle ==
    \A b \in Backends : \A id \in Ids(hist) :
        /\ Cardinality(RecordsUnder(stores[b], id)) = 1
        /\ \A i \in RecordsUnder(stores[b], id) :
              stores[b][i].title = LastUpserted(id).title

\* C14 witness: an id was upserted twice, with different titles, after
\* another id.
C14_Witness ==
    /\ Len(hist) = 3
    /\ hist[1].id # hist[2].id
    /\ hist[2].id = hist[3].id
    /\ hist[2].title # hist[3].title

IdsInOrder(store) == [i \in 1..Len(store) |-> store[i].id]

\* C15: on each backend, an upsert under a stored id leaves the order of the
\* stored ids as it was, and an upsert under an absent id puts it in front
\* of the others.
C15_ReplaceInPlace ==
    [][\A b \in Backends :
          LET article == hist'[Len(hist')] IN
          IF article.id \in Ids(stores[b])
          THEN IdsInOrder(stores'[b]) = IdsInOrder(stores[b])
          ELSE IdsInOrder(stores'[b]) = <<article.id>> \o IdsInOrder(stores[b])
      ]_vars

\* C16: on each backend, get-by-id of an upserted id returns the item of the
\* last upsert under that id, every field of it.
C16_FullReplace ==
    \A b \in Backends : \A id \in Ids(hist) :
        get_article_by_id(b, stores[b], id) = LastUpserted(id)

DistinctIds(store) == Cardinality(Ids(store))

\* C17: while fewer than 50 distinct ids are stored, the three backends
\* return the same listing and the same item for every id.
C17_BackendsEquivalent ==
    (\A b \in Backends : DistinctIds(stores[b]) < max_articles) =>
        \A b \in Backends :
            /\ get_all_articles(b, stores[b])
                   = get_all_articles("file", stores["file"])
            /\ \A id \in Ids(hist) :
                  get_article_by_id(b, stores[b], id)
                      = get_article_by_id("file", stores["file"], id)

----------------------------------------------------------------------------
(* The key/value side of the backends (cache.py 52-111, 179-208, 306-362). *)
(* `entries` is what the backend holds: a set of records, one per name, a  *)
(* name being the file, the Redis key or the row key.  An operation is     *)
(* given the clock `t`.                                                    *)

\* The keys of SpecKV: two that differ in a character that is not
\* alphanumeric.
Keys == {"a:b", "a_b"}

Values == {<<"v1">>, <<"v2">>}

\* The ttl arguments of SpecKV (Optional[int], a given ttl n being <<n>>):
\* none, zero, and two positive ones.
Ttls == {NoneVal, <<0>>, <<1>>, <<2>>}

\* lines 52-55: every character of the key that is not alphanumeric becomes
\* an underscore.
_get_cache_path(key) ==
    CASE key = "a:b" -> "a_b.json"
      [] key = "a_b" -> "a_b.json"
      [] key = "ab"  -> "ab.json"

\* lines 182, 195: the key with the prefix of the application.
RedisName(key) == <<"kalshi_news:", key>>

NameOf(b, key) ==
    CASE b = "file"     -> _get_cache_path(key)
      [] b = "redis"    -> RedisName(key)
      [] b = "postgres" -> key

EntryAt(entries, name) ==
    IF \E e \in entries : e.name = name
    THEN CHOOSE e \in entries : e.name = name
    ELSE NoneVal

Without(entries, name) == {e \in entries : e.name # name}

\* lines 82, 192, 328: ttl = ttl or config.CACHE_TTL
EffectiveTtl(ttl) ==
    IF ttl = NoneVal THEN CACHE_TTL
    ELSE IF ttl[1] = 0 THEN CACHE_TTL ELSE ttl[1]

\* set, lines 79-100 (file), 190-199 (redis: setex), 326-348 (postgres:
\* INSERT ... ON CONFLICT (key) DO UPDATE): the entry of that name is
\* written anew, expiring EffectiveTtl after the clock.
set(b, entries, key, value, ttl, t) ==
    Without(entries, NameOf(b, key))
    \cup {[name |-> NameOf(b, key), value |-> value,
           expires_at |-> t + EffectiveTtl(ttl)]}

\* delete, lines 102-111, 350-362
delete(b, entries, key) == Without(entries, NameOf(b, key))

\* lines 70, 318: utcnow() > expires_at; on redis the server drops the key
\* once its time to live has run out.
Expired(b, entry, t) ==
    IF b = "redis" THEN t >= entry.expires_at ELSE t > entry.expires_at

\* get, lines 57-77 (file), 179-188 (redis), 306-324 (postgres): the value
\* returned and the entries left.  An expired entry is deleted by the get
\* (file, postgres) or is gone already (redis).
get(b, entries, key, t) ==
    LET entry == EntryAt(entries, NameOf(b, key)) IN
    IF entry = NoneVal
    THEN [value |-> NoneVal, entries |-> entries]
    ELSE IF Expired(b, entry, t)
    THEN [value |-> NoneVal, entries |-> delete(b, entries, key)]
    ELSE [value |-> entry.value, entries |-> entries]

----------------------------------------------------------------------------
(* SpecKV: set and get calls on one backend while the clock runs.  `kv`    *)
(* holds the entries of the backend, for every key the arguments and the   *)
(* time of its last set, and what the last get since the last set          *)
(* returned.                                                               *)

cache_set(key, value, ttl) ==
    /\ kv' = [entries |-> set(backend, kv.entries, key, value, ttl, now),
              sets    |-> [kv.sets EXCEPT
                              ![key] = [value |-> value, ttl |-> ttl,
                                        at |-> now]],
              got     |-> NoneVal]
    /\ UNCHANGED <<backend, articles, now, gen, man, res, cap, up, stores,
                   hist, twin, call, src>>

cache_get(key) ==
    /\ LET r == get(backend, kv.entries, key, now) IN
       kv' = [kv EXCEPT !.entries = r.entries,
                        !.got = [key |-> key, value |-> r.value, at |-> now]]
    /\ UNCHANGED <<backend, articles, now, gen, man, res, cap, up, stores,
                   hist, twin, call, src>>

InitKV ==
    /\ backend \in Backends
    /\ articles = <<>>
    /\ now = 0
    /\ gen = GenIdle
    /\ man = ManIdle
    /\ res = ResIdle
    /\ cap = <<>>
    /\ up = NoUpserts
    /\ stores = NoStores
    /\ hist = <<>>
    /\ twin = NoTwin
    /\ kv = [entries |-> {}, sets |-> [k \in Keys |-> NoneVal],
             got |-> NoneVal]
    /\ call = NoCall
    /\ src = NoSource

NextKV ==
    \/ \E key \in Keys, value \in Values, ttl \in Ttls :
          cache_set(key, value, ttl)
    \/ \E key \in Keys : cache_get(key)
    \/ Tick

SpecKV == InitKV /\ [][NextKV]_vars

\* The instant at which the entry of a set made at `at` with `ttl` expires;
\* a set without ttl takes the configured one.
ExpiryInstant(ttl, at) ==
    at + (IF ttl = NoneVal THEN CACHE_TTL ELSE ttl[1])

\* C20: a get of a key that was set returns the value of the last set of
\* that key when it is made before the expiry instant of that set, and
\* returns absent when it is made after it, the backend then holding no
\* entry for the key.
C20_GetHonorsTtl ==
    (kv.got # NoneVal /\ kv.sets[kv.got.key] # NoneVal) =>
        LET last   == kv.sets[kv.got.key]
            expiry == ExpiryInstant(last.ttl, last.at)
        IN  /\ kv.got.at < expiry => kv.got.value = last.value
            /\ kv.got.at > expiry =>
                  /\ kv.got.value = NoneVal
                  /\ EntryAt(kv.entries, NameOf(backend, kv.got.key)) = NoneVal

----------------------------------------------------------------------------
(* SpecExt: upserts on the durable backend of items that carry keys the    *)
(* articles table has no column for.  `articles` is the table and `hist`   *)
(* the items upserted, in order.                                           *)

\* The keys outside the columns that an item may carry, with their values:
\* none, the link a resolution check sets, and a link with a second key.
ExtExtras ==
    {[results_article_id |-> "r1"],
     [results_article_id |-> "r2", source_note |-> "n1"],
     [source_note |-> "n2"]}

ExtCores ==
    {ColumnsOf(generate_article(t, 0)) @@ [title |-> ti] :
        t \in {"T1", "T2"}, ti \in StoreTitles}

ExtItems == ExtCores \cup {e @@ c : e \in ExtExtras, c \in ExtCores}

\* cache.add_article(article) on the durable backend.
durable_add_article(article) ==
    /\ Len(hist) < MaxStoreOps
    /\ articles' = add_article(backend, articles, article)
    /\ hist' = Append(hist, article)
    /\ UNCHANGED <<backend, now, gen, man, res, cap, up, stores, twin, kv, call, src>>

InitExt ==
    /\ backend = "postgres"
    /\ articles = <<>>
    /\ now = 0
    /\ gen = GenIdle
    /\ man = ManIdle
    /\ res = ResIdle
    /\ cap = <<>>
    /\ up = NoUpserts
    /\ stores = NoStores
    /\ hist = <<>>
    /\ twin = NoTwin
    /\ kv = NoEntries
    /\ call = NoCall
    /\ src = NoSource

NextExt == \E article \in ExtItems : durable_add_article(article)

SpecExt == InitExt /\ [][NextExt]_vars

\* `got` carries every key of `item` that is no column, with its value.
CarriesExtras(got, item) ==
    \A k \in DOMAIN item \ Columns : k \in DOMAIN got /\ got[k] = item[k]

\* C21: on the durable backend, get-by-id of an upserted id returns an item
\* that carries every key outside the core schema of the item upserted last
\* under that id, with the value it had, after a first insert and after a
\* re-upsert alike; so does the listing for the items it lists.
C21_ExtrasRoundTrip ==
    \A id \in Ids(hist) :
        /\ Stored(id) # NoneVal
        /\ CarriesExtras(Stored(id), LastUpserted(id))
        /\ \A i \in 1..Len(Listing) :
              Listing[i].id = id => CarriesExtras(Listing[i], LastUpserted(id))

\* C21 witness: an id was upserted twice, each time with keys outside the
\* core schema, and the values differ.
C21_Witness ==
    /\ Len(hist) >= 2
    /\ hist[1].id = hist[2].id
    /\ DOMAIN hist[1] \ Columns # {}
    /\ DOMAIN hist[2] \ Columns # {}
    /\ DataOf(hist[1]) # DataOf(hist[2])

----------------------------------------------------------------------------
(* SpecFail: storage operations that meet a fault of the underlying store. *)
(* "unavailable": the store cannot be reached at all (the cache directory  *)
(* cannot be opened, the Redis or database connection is refused);         *)
(* "write_fails": the store is reached and the write itself raises (the    *)
(* disk is full, Redis or the database rejects the statement).  `call` is  *)
(* the last operation called, its fault and what the caller got: "True",   *)
(* "False", or "raise" for an exception that leaves the operation.         *)

Faults == {"none", "unavailable", "write_fails"}

\* What the caller of a storage operation may get.
\*  - FileCache.set, delete, save_articles (and add_article through it)
\*    catch IOError and return False (lines 98-100, 109-111, 136-138);
\*    delete tests cache_path.exists() first (line 106), which on an
\*    unreachable directory is False or raises, by the kind of the error.
\*  - RedisCache.set, delete, save_articles catch Exception and return
\*    False (lines 197-199, 206-208, 227-229).
\*  - PostgresCache.set, delete, add_article open the connection before the
\*    try (lines 329, 352, 415) and catch Exception inside it, returning
\*    False; save_articles calls add_article for every article, does not
\*    read what it returns, and returns True (lines 407-411).
Returns(b, op, fault) ==
    CASE fault = "none" -> {"True"}
      [] fault = "unavailable" ->
            IF b = "postgres" THEN {"raise"}
            ELSE IF b = "file" /\ op = "delete" THEN {"True", "False"}
            ELSE {"False"}
      [] fault = "write_fails" ->
            IF b = "postgres" /\ op = "save_articles" THEN {"True"}
            ELSE {"False"}

\* What a write that failed may leave of what it was to replace: on the
\* file backend open(path, "w") has emptied the file when the write into it
\* raises (lines 93-94, 129-133), and a file that does not parse reads as
\* nothing stored (lines 118-125, 75-77); when open itself raises the file
\* is as it was.  A Redis command or a database statement that raises
\* changes nothing.
LeftByFailedWrite(b, fault, old, nothing) ==
    IF b = "file" /\ fault = "write_fails" THEN {old, nothing} ELSE {old}

Called(op, fault, ret) == [op |-> op, fault |-> fault, ret |-> ret]

call_set(key, value, fault) ==
    /\ \E ret \in Returns(backend, "set", fault) :
          call' = Called("set", fault, ret)
    /\ \E entries \in
             IF fault = "none"
             THEN {set(backend, kv.entries, key, value, NoneVal, now)}
             ELSE LeftByFailedWrite(backend, fault, kv.entries,
                                    delete(backend, kv.entries, key)) :
          kv' = [kv EXCEPT !.entries = entries]
    /\ UNCHANGED <<backend, articles, now, gen, man, res, cap, up, stores,
                   hist, twin, src>>

call_delete(key, fault) ==
    /\ \E ret \in Returns(backend, "delete", fault) :
          call' = Called("delete", fault, ret)
    /\ kv' = IF fault = "none"
             THEN [kv EXCEPT !.entries = delete(backend, kv.entries, key)]
             ELSE kv
    /\ UNCHANGED <<backend, articles, now, gen, man, res, cap, up, stores,
                   hist, twin, src>>

call_add_article(article, fault) ==
    /\ \E ret \in Returns(backend, "add_article", fault) :
          call' = Called("add_article", fault, ret)
    /\ articles' \in
          IF fault = "none" THEN {add_article(backend, articles, article)}
          ELSE LeftByFailedWrite(backend, fault, articles, <<>>)
    /\ UNCHANGED <<backend, now, gen, man, res, cap, up, stores, hist, twin,
                   kv, src>>

call_save_articles(arts, fault) ==
    /\ \E ret \in Returns(backend, "save_articles", fault) :
          call' = Called("save_articles", fault, ret)
    /\ articles' \in
          IF fault = "none" THEN {save_articles(backend, articles, arts)}
          ELSE LeftByFailedWrite(backend, fault, articles, <<>>)
    /\ UNCHANGED <<backend, now, gen, man, res, cap, up, stores, hist, twin,
                   kv, src>>

\* The items and lists the operations are given.
FailItems == {generate_article(t, 0) : t \in ClosingTickers}

InitFail ==
    /\ backend \in Backends
    /\ articles = <<>>
    /\ now = 0
    /\ gen = GenIdle
    /\ man = ManIdle
    /\ res = ResIdle
    /\ cap = <<>>
    /\ up = NoUpserts
    /\ stores = NoStores
    /\ hist = <<>>
    /\ twin = NoTwin
    /\ kv = [entries |-> {}, sets |-> [k \in Keys |-> NoneVal],
             got |-> NoneVal]
    /\ call = Called("none", "none", "True")
    /\ src = NoSource

NextFail ==
    \/ \E key \in Keys, value \in Values, fault \in Faults :
          call_set(key, value, fault)
    \/ \E key \in Keys, fault \in Faults : call_delete(key, fault)
    \/ \E article \in FailItems, fault \in Faults :
          call_add_article(article, fault)
    \/ \E arts \in TwinStores, fault \in Faults :
          call_save_articles(arts, fault)

SpecFail == InitFail /\ [][NextFail]_vars

\* C22: on every backend, a storage operation (set, delete, upsert, bulk
\* save) that meets an unavailable store or a failing write hands False to
\* its caller, neither an exception nor True, and leaves the stored
\* collection and the stored entries as they were.
C22_FailureIsSignalled ==
    [][call'.fault # "none" =>
          /\ call'.ret = "False"
          /\ articles' = articles
          /\ kv'.entries = kv.entries]_vars

----------------------------------------------------------------------------
(* The scorer (kalshi_client.py 222-262).  A market is a record of the     *)
(* keys the scorer reads; an absent key is <<>> and a present one <<n>>    *)
(* where the code tells the two apart.  close_in is the time from the      *)
(* scoring to the market's close_time, in minutes.  A score is a whole     *)
(* number of 1/ScoreUnit points, which is exact for every term and factor  *)
(* of the code on whole-number inputs.                                     *)

ScoreUnit == 10000

\* line 236: market.get("yes_bid", 0) or market.get("last_price", 50)
YesPrice(market) ==
    IF market.yes_bid # 0 THEN market.yes_bid
    ELSE IF market.last_price = NoneVal THEN 50
    ELSE market.last_price[1]

\* line 233: min(volume / 1000, 50)
VolumeTerm(market) == Min((market.volume * ScoreUnit) \div 1000, 50 * ScoreUnit)

\* line 234: min(volume_24h / 100, 30)
Volume24hTerm(market) ==
    Min((market.volume_24h * ScoreUnit) \div 100, 30 * ScoreUnit)

\* Mutant: the lower band ends below 90.
BandBonus_Below90(yes_price) ==
    IF 20 <= yes_price /\ yes_price <= 80 THEN 20 * ScoreUnit
    ELSE IF 10 <= yes_price /\ yes_price < 90 THEN 10 * ScoreUnit
    ELSE 0

\* lines 237-240
BandBonus(yes_price) ==
    IF 20 <= yes_price /\ yes_price <= 80 THEN 20 * ScoreUnit
    ELSE IF 10 <= yes_price /\ yes_price <= 90 THEN 10 * ScoreUnit
    ELSE 0

\* lines 246-247: min(open_interest / 500, 20)
InterestTerm(market) ==
    Min((market.open_interest * ScoreUnit) \div 500, 20 * ScoreUnit)

\* The value of `score` when line 250 is reached.
SumOfTerms(market) ==
    VolumeTerm(market) + Volume24hTerm(market)
        + BandBonus(YesPrice(market)) + InterestTerm(market)

\* Mutant: the two factors change places.
TimeDecayTenths_Swapped(market) ==
    IF market.close_in = NoneVal THEN 10
    ELSE IF market.close_in[1] < 2 * 60 THEN 7
    ELSE IF market.close_in[1] < 24 * 60 THEN 3
    ELSE 10

\* lines 250-258: the factor the score is multiplied by, in tenths: 0.3
\* with less than 2 hours to the close, 0.7 with less than 24, none without
\* a close_time.
TimeDecayTenths(market) ==
    IF market.close_in = NoneVal THEN 10
    ELSE IF market.close_in[1] < 2 * 60 THEN 3
    ELSE IF market.close_in[1] < 24 * 60 THEN 7
    ELSE 10

_calculate_market_score(market) ==
    (SumOfTerms(market) * TimeDecayTenths(market)) \div 10

----------------------------------------------------------------------------
(* SpecScore: the scorer applied to one market.                            *)

ScoreMarkets ==
    [ticker        : {"T1"},
     volume        : {0, 5000, 60000},
     volume_24h    : {0, 1000, 4000},
     yes_bid       : {0, 9, 10, 19, 20, 50, 80, 81, 89, 90, 91},
     last_price    : {<<>>, <<90>>},
     open_interest : {0, 2000, 20000},
     close_in      : {<<>>, <<60>>, <<119>>, <<120>>, <<1439>>, <<1440>>,
                      <<14400>>}]

\* score = self._calculate_market_score(market), line 211
score_market ==
    /\ src.pc = "market"
    /\ src' = [src EXCEPT !.pc = "scored",
                          !.sum = SumOfTerms(src.market),
                          !.score = _calculate_market_score(src.market)]
    /\ UNCHANGED <<backend, articles, now, gen, man, res, cap, up, stores,
                   hist, twin, kv, call>>

InitScore ==
    /\ backend = "file"
    /\ articles = <<>>
    /\ now = 0
    /\ gen = GenIdle
    /\ man = ManIdle
    /\ res = ResIdle
    /\ cap = <<>>
    /\ up = NoUpserts
    /\ stores = NoStores
    /\ hist = <<>>
    /\ twin = NoTwin
    /\ kv = NoEntries
    /\ call = NoCall
    /\ \E market \in ScoreMarkets :
          src = [pc |-> "market", market |-> market, sum |-> 0, score |-> 0]

NextScore == score_market

SpecScore == InitScore /\ [][NextScore]_vars

\* The candidate of the two worked scores: volume 5000, volume_24h 1000,
\* price 50, open_interest 2000.
IsWorkedCandidate(market) ==
    /\ market.volume = 5000
    /\ market.volume_24h = 1000
    /\ YesPrice(market) = 50
    /\ market.open_interest = 2000

\* C28: the worked candidate scores 39 when it closes in 10 days and 11.7
\* when it closes in 1 hour; for every market the score is the sum of the
\* capped terms times 0.3 when less than 2 hours remain, times 0.7 when
\* less than 24 hours remain, and the sum itself otherwise.
C28_TimeDecay ==
    src.pc = "scored" =>
        LET m == src.market
            remaining == m.close_in
        IN  /\ (IsWorkedCandidate(m) /\ remaining = <<10 * 24 * 60>>)
                  => src.score = 39 * ScoreUnit
            /\ (IsWorkedCandidate(m) /\ remaining = <<60>>)
                  => 10 * src.score = 117 * ScoreUnit
            /\ 10 * src.score =
                  src.sum * (IF remaining = NoneVal THEN 10
                             ELSE IF remaining[1] < 120 THEN 3
                             ELSE IF remaining[1] < 1440 THEN 7
                             ELSE 10)

\* C28 witness: the worked candidate, one hour before its close, has been
\* scored.
C28_Witness ==
    /\ src.pc = "scored"
    /\ IsWorkedCandidate(src.market)
    /\ src.market.close_in = <<60>>
    /\ 10 * src.score = 117 * ScoreUnit

\* The part of the sum that is neither of the volume terms nor the open
\* interest term.
BandPart == src.sum - VolumeTerm(src.market) - Volume24hTerm(src.market)
                - InterestTerm(src.market)

\* C30 as stated: the band bonus is 20 for a price from 20 to 80, 10 for a
\* price from 10 up to but not including 90 outside that band, and 0
\* otherwise, so that a price of 90 earns nothing.
C30_BandBonusBelow90 ==
    src.pc = "scored" =>
        LET price == YesPrice(src.market) IN
        BandPart = IF 20 <= price /\ price <= 80 THEN 20 * ScoreUnit
                   ELSE IF 10 <= price /\ price < 90 THEN 10 * ScoreUnit
                   ELSE 0

\* C30 as amended: the band bonus is 20 for a price from 20 to 80, 10 for a
\* price from 10 to 90, both included, outside that band, and 0 otherwise:
\* prices 10, 89 and 90 earn 10, prices 9 and 91 earn nothing.
C30_BandBonusThrough90 ==
    src.pc = "scored" =>
        LET price == YesPrice(src.market) IN
        /\ BandPart = IF 20 <= price /\ price <= 80 THEN 20 * ScoreUnit
                      ELSE IF 10 <= price /\ price <= 90 THEN 10 * ScoreUnit
                      ELSE 0
        /\ price \in {10, 89, 90} => BandPart = 10 * ScoreUnit
        /\ price \in {9, 91} => BandPart = 0

\* C30 witness: a market priced at 90 has been scored and earned the bonus
\* of the outer band.
C30_Witness ==
    /\ src.pc = "scored"
    /\ YesPrice(src.market) = 90
    /\ BandPart = 10 * ScoreUnit

----------------------------------------------------------------------------
(* The ranking at the end of get_trending_markets (kalshi_client.py        *)
(* 205-220).                                                               *)

Max(a, b) == IF a > b THEN a ELSE b

\* Mutant: the score is taken as computed.
InterestScore_NoFloor(market) == _calculate_market_score(market)

\* line 212: max(score, 1)
InterestScore(market) == Max(_calculate_market_score(market), 1 * ScoreUnit)

\* lines 210-213: every market gets its _interest_score.
scored_markets(all_markets) ==
    [i \in 1..Len(all_markets) |->
        [_interest_score |-> InterestScore(all_markets[i])] @@ all_markets[i]]

\* line 216: sort(key = _interest_score, reverse = True).  The sort is
\* stable: markets of equal score keep the order they came in.
SortedByInterest(scored) ==
    LET n == Len(scored)
        place(i) ==
            1 + Cardinality({j \in 1..n :
                    \/ scored[j]._interest_score > scored[i]._interest_score
                    \/ /\ scored[j]._interest_score = scored[i]._interest_score
                       /\ j < i})
    IN  [k \in 1..n |-> scored[CHOOSE i \in 1..n : place(i) = k]]

\* lines 205-219: nothing for no market, else the `limit` best.
TopMarkets(all_markets, limit) ==
    IF all_markets = <<>> THEN <<>>
    ELSE Take(SortedByInterest(scored_markets(all_markets)), limit)

----------------------------------------------------------------------------
(* SpecRank: the ranking applied to a list of markets.                     *)

RankMarket(ticker, volume, yes_bid) ==
    [ticker |-> ticker, volume |-> volume, volume_24h |-> 1000,
     yes_bid |-> yes_bid, last_price |-> <<>>, open_interest |-> 2000,
     close_in |-> <<>>]

\* Two markets of equal score, one of a higher score, one that scores 0 and
\* one that scores between 0 and 1.
RankMarkets ==
    {RankMarket("T1", 5000, 50), RankMarket("T2", 5000, 50),
     RankMarket("T3", 60000, 50),
     [RankMarket("T4", 0, 5) EXCEPT !.volume_24h = 0, !.open_interest = 0],
     [RankMarket("T1", 500, 95) EXCEPT !.volume_24h = 0, !.open_interest = 0]}

rank_markets ==
    /\ src.pc = "candidates"
    /\ src' = [src EXCEPT !.pc = "ranked",
                          !.trending = TopMarkets(src.all_markets, src.limit)]
    /\ UNCHANGED <<backend, articles, now, gen, man, res, cap, up, stores,
                   hist, twin, kv, call>>

InitRank ==
    /\ backend = "file"
    /\ articles = <<>>
    /\ now = 0
    /\ gen = GenIdle
    /\ man = ManIdle
    /\ res = ResIdle
    /\ cap = <<>>
    /\ up = NoUpserts
    /\ stores = NoStores
    /\ hist = <<>>
    /\ twin = NoTwin
    /\ kv = NoEntries
    /\ call = NoCall
    /\ \E n \in 0..MaxCandidates, limit \in 0..MaxCandidates :
          \E all_markets \in SeqsOfLen(RankMarkets, n) :
             src = [pc |-> "candidates", all_markets |-> all_markets,
                    limit |-> limit, trending |-> <<>>]

NextRank == rank_markets

SpecRank == InitRank /\ [][NextRank]_vars

\* How often `x` occurs in the sequence `s`.
Count(s, x) == Cardinality({i \in 1..Len(s) : s[i] = x})

\* A candidate with the score the scorer gives it, floored at 1.
WithScore(market) ==
    [_interest_score |->
        IF _calculate_market_score(market) < ScoreUnit THEN ScoreUnit
        ELSE _calculate_market_score(market)] @@ market

\* C29: the scorer returns candidates of its input, each as often at most
\* as the input holds it and each annotated with its score floored at 1, in
\* descending order of that score, as many as the limit allows; every
\* returned candidate has a score of at least 1, and a candidate left out
\* has no higher score than any returned one.
C29_RankedTruncated ==
    src.pc = "ranked" =>
        LET inp == [i \in 1..Len(src.all_markets) |->
                       WithScore(src.all_markets[i])]
            out == src.trending
        IN  /\ Len(out) = Min(src.limit, Len(inp))
            /\ \A k \in 1..Len(out) :
                  /\ Count(inp, out[k]) >= Count(out, out[k])
                  /\ out[k]._interest_score >= 1 * ScoreUnit
            /\ \A k \in 1..(Len(out) - 1) :
                  out[k]._interest_score >= out[k + 1]._interest_score
            /\ \A i \in 1..Len(inp) :
                  Count(out, inp[i]) < Count(inp, inp[i]) =>
                      \A k \in 1..Len(out) :
                          inp[i]._interest_score <= out[k]._interest_score

\* C29 witness: three candidates were ranked and two returned, one of them
\* lifted to the floor, the best one first though it came last.
C29_Witness ==
    /\ src.pc = "ranked"
    /\ Len(src.all_markets) = 3
    /\ Len(src.trending) = 2
    /\ src.trending[1].ticker = src.all_markets[3].ticker
    /\ src.trending[1].ticker # src.all_markets[1].ticker
    /\ src.trending[2]._interest_score = 1 * ScoreUnit
    /\ _calculate_market_score(src.all_markets[1]) < 1 * ScoreUnit

----------------------------------------------------------------------------
(* The market source (kalshi_client.py 62-220).  A response is what one    *)
(* HTTP request meets: `ok` with the list its body carries, or a failure:  *)
(* an HTTP error status, a connection error or timeout, a body that is no  *)
(* JSON.  A call returns [raised, body]: `raised` names the exception that *)
(* leaves it, "none" when it returns `body`.                               *)

RequestFailures == {"http_error", "connection_error", "bad_json"}

Ok(body) == [ok |-> TRUE, failure |-> "none", body |-> body]

Failed(failure) == [ok |-> FALSE, failure |-> failure, body |-> <<>>]

Returned(body) == [raised |-> "none", body |-> body]

\* Mutant: a body that is no JSON is not caught.
HandledBy_make_request_NoValueError == {"http_error", "connection_error"}

\* lines 69-77: HTTPError, RequestException and ValueError are caught and
\* raised again as KalshiAPIError.
HandledBy_make_request == {"http_error", "connection_error", "bad_json"}

\* lines 62-77
_make_request(response) ==
    IF response.ok THEN Returned(response.body)
    ELSE [raised |-> IF response.failure \in HandledBy_make_request
                     THEN "KalshiAPIError" ELSE response.failure,
          body   |-> <<>>]

\* except KalshiAPIError: return [] (lines 94-96, 147-149) or
\* {"markets": [], "cursor": None} (lines 116-118); any other exception
\* leaves the call.
OrEmpty(result) ==
    IF result.raised = "KalshiAPIError" THEN Returned(<<>>) ELSE result

get_events(response) == OrEmpty(_make_request(response))

get_markets_by_event(response) == OrEmpty(_make_request(response))

\* The "markets" list of what get_markets returns.
get_markets(response) == OrEmpty(_make_request(response))

\* The event and market tickers of the model that start with one of the
\* SPORTS_PREFIXES (lines 155-159).
StartsWithSportsPrefix(ticker) == ticker \in {"KXNBA-E", "KXNBA-M"}

\* lines 167-170
interesting_events(events) ==
    SelectSeq(events, LAMBDA e : ~StartsWithSportsPrefix(e.event_ticker))

\* lines 182-186: the markets of an event, each given the event's title.
WithEventTitle(markets, event) ==
    [i \in 1..Len(markets) |->
        [_event_title |-> event.title] @@ markets[i]]

\* lines 178-193: the loop over the first ten interesting events, from the
\* i-th on, with the markets gathered so far.
RECURSIVE EventLoop(_, _, _, _)
EventLoop(events, by_event, i, all_markets) ==
    IF i > Min(10, Len(events)) THEN Returned(all_markets)
    ELSE LET found == get_markets_by_event(by_event[events[i].event_ticker])
             extended == all_markets \o WithEventTitle(found.body, events[i])
         IN  IF found.raised # "none" THEN found
             ELSE IF Len(extended) >= 50 THEN Returned(extended)
             ELSE EventLoop(events, by_event, i + 1, extended)

\* lines 196-203: the general endpoint's markets that are no sports
\* markets.
NonSports(markets) ==
    SelectSeq(markets, LAMBDA m :
        /\ ~StartsWithSportsPrefix(m.ticker)
        /\ ~StartsWithSportsPrefix(m.event_ticker))

\* lines 150-220
get_trending_markets(responses, limit) ==
    LET events == get_events(responses.events) IN
    IF events.raised # "none" THEN events
    ELSE LET from_events ==
                 EventLoop(interesting_events(events.body),
                           responses.by_event, 1, <<>>)
         IN  IF from_events.raised # "none" THEN from_events
             ELSE IF Len(from_events.body) < 20
             THEN LET general == get_markets(responses.general) IN
                  IF general.raised # "none" THEN general
                  ELSE Returned(TopMarkets(
                           from_events.body \o NonSports(general.body),
                           limit))
             ELSE Returned(TopMarkets(from_events.body, limit))

----------------------------------------------------------------------------
(* SpecSource: generation cycles, scheduled and manual, that fetch their   *)
(* candidates from the market source; the generator and the store do their *)
(* work for every candidate.  `src` holds the responses the source met in  *)
(* the cycle under way and what get_trending_markets made of them.         *)

SourceEvents ==
    [fed |-> [event_ticker |-> "FED-E", title |-> "Fed"],
     nba |-> [event_ticker |-> "KXNBA-E", title |-> "NBA"]]

SourceMarket(ticker, event_ticker, volume) ==
    [event_ticker |-> event_ticker] @@ RankMarket(ticker, volume, 50)

EventsResponses ==
    {Failed(f) : f \in RequestFailures}
    \cup {Ok(<<SourceEvents.fed>>), Ok(<<SourceEvents.nba, SourceEvents.fed>>)}

ByEventResponses ==
    {Failed(f) : f \in RequestFailures}
    \cup {Ok(<<>>),
          Ok(<<SourceMarket("T1", "FED-E", 5000),
               SourceMarket("T2", "FED-E", 60000)>>)}

GeneralResponses ==
    {Failed(f) : f \in RequestFailures}
    \cup {Ok(<<SourceMarket("T3", "CPI-E", 5000),
               SourceMarket("KXNBA-M", "KXNBA-E", 60000)>>)}

SourceResponses ==
    [events   : EventsResponses,
     by_event : [{"FED-E"} -> ByEventResponses],
     general  : GeneralResponses]

\* market.get("ticker") of every candidate (scheduler.py 53, 181).
TickersOf(markets) == [i \in 1..Len(markets) |-> markets[i].ticker]

\* scheduler.py 29-34, 168-172: a task begins, the one before it having
\* returned, and asks the source for its candidates.
fetch_trending_markets(task, responses) ==
    /\ \/ src.pc = "idle"
       \/ src.task = "scheduled" /\ gen.pc = "done"
       \/ src.task = "manual" /\ man.pc = "done"
    /\ LET trending ==
               get_trending_markets(responses, MAX_MARKETS_TO_FETCH)
       IN  src' = [pc |-> "fetched", task |-> task, responses |-> responses,
                   raised |-> trending.raised, trending |-> trending.body]
    /\ gen' = GenIdle
    /\ man' = ManIdle
    /\ UNCHANGED <<backend, articles, now, res, cap, up, stores, hist, twin,
                   kv, call>>

\* The candidates the task goes on with; an exception out of the source
\* ends the task in its outer handler (scheduler.py 79-80, 195-197), as no
\* candidate does (37-39, 174-176).
Candidates == IF src.raised # "none" THEN <<>> ELSE TickersOf(src.trending)

source_scheduled_start ==
    /\ src.pc = "fetched"
    /\ src.task = "scheduled"
    /\ gen.pc = "idle"
    /\ generate_articles_job_start(Candidates)

source_manual_start ==
    /\ src.pc = "fetched"
    /\ src.task = "manual"
    /\ man.pc = "idle"
    /\ manual_refresh_start(Candidates)

InitSource ==
    /\ backend \in Backends
    /\ articles = <<>>
    /\ now = 0
    /\ gen = GenIdle
    /\ man = ManIdle
    /\ res = ResIdle
    /\ cap = <<>>
    /\ up = NoUpserts
    /\ stores = NoStores
    /\ hist = <<>>
    /\ twin = NoTwin
    /\ kv = NoEntries
    /\ call = NoCall
    /\ src = [pc |-> "idle", task |-> "none", responses |-> <<>>,
              raised |-> "none", trending |-> <<>>]

NextSource ==
    \/ \E task \in {"scheduled", "manual"}, responses \in SourceResponses :
          fetch_trending_markets(task, responses)
    \/ source_scheduled_start
    \/ generate_articles_job_step("ok")
    \/ source_manual_start
    \/ manual_refresh_step("ok")

SpecSource == InitSource /\ [][NextSource]_vars

\* Every request the source makes in the cycle fails.
EveryRequestFails(responses) ==
    /\ ~responses.events.ok
    /\ \A e \in DOMAIN responses.by_event : ~responses.by_event[e].ok
    /\ ~responses.general.ok

\* C23: when every request to the market source fails, the source returns
\* an empty list and raises nothing, and the cycle that asked, scheduled or
\* manual, ends without having invoked the generator and with the stored
\* collection as it was; the manual trigger returns 0.
C23_SourceFailureIsEmptyCycle ==
    (src.pc = "fetched" /\ EveryRequestFails(src.responses)) =>
        /\ src.raised = "none"
        /\ src.trending = <<>>
        /\ (src.task = "scheduled" /\ gen.pc # "idle") =>
              /\ gen.pc = "done"
              /\ gen.invoked = {}
              /\ articles = gen.pre
        /\ (src.task = "manual" /\ man.pc # "idle") =>
              /\ man.pc = "done"
              /\ man.invoked = {}
              /\ man.ret = 0
              /\ articles = man.pre

\* C23 witness: a manual trigger whose every request failed has returned,
\* over a stored collection that earlier cycles had filled.
C23_Witness ==
    /\ src.pc = "fetched"
    /\ EveryRequestFails(src.responses)
    /\ src.task = "manual"
    /\ man.pc = "done"
    /\ Len(articles) >= 2

----------------------------------------------------------------------------
(* The generator's handling of the LLM's response (article_generator.py    *)
(* 173-235, 306-323).  A response is named by what it is: a JSON object,   *)
(* a JSON object inside a ```json fence, the empty JSON object, a JSON     *)
(* array, text that is no JSON, or no response at all because the call to  *)
(* the LLM raised.                                                         *)

LLMResponses ==
    {"object", "fenced_object", "empty_object", "array", "text", "llm_error"}

\* lines 306-323: the fence is stripped and json.loads gives a dict or a
\* list; a JSONDecodeError gives None.
_parse_article_response(response_text) ==
    CASE response_text \in {"object", "fenced_object"} -> "dict"
      [] response_text = "empty_object"                 -> "empty_dict"
      [] response_text = "array"                        -> "list"
      [] response_text = "text"                         -> "None"

\* Mutant: a response that gave no article is asked for once more.
LLMCallsFor_Retry(response) ==
    IF response \in {"object", "fenced_object"} THEN <<response>>
    ELSE <<response, response>>

\* line 199: the responses one generate_article call takes from the LLM:
\* one, whatever it is (the warning of line 225 starts no second call).
LLMCallsFor(response) == <<response>>

\* lines 173-235: whether generate_article returns an article.  A raising
\* LLM call ends in the except of line 233; None and the empty dict end in
\* line 203; a list has no .get, which ends in the except as well.
ReturnsArticle(response) ==
    IF response = "llm_error" THEN FALSE
    ELSE LET article_data == _parse_article_response(response) IN
         IF article_data \in {"None", "empty_dict"} THEN FALSE
         ELSE article_data = "dict"

\* What the generation tasks see of one generate_article call.
OutcomeOf(response) == IF ReturnsArticle(response) THEN "ok" ELSE "none"

----------------------------------------------------------------------------
(* SpecParse: one generation cycle, scheduled or manual, in which the LLM  *)
(* answers every candidate with one of the responses.  `hist` is the log   *)
(* of the LLM's calls: the position of the candidate and the response.     *)

\* The loop of the scheduled task is at a candidate it hands to the
\* generator (scheduler.py 50-65).
GenAtCandidate ==
    /\ Running(gen)
    /\ gen.i <= Len(gen.markets)
    /\ ~BudgetExhausted(gen.count)
    /\ gen.markets[gen.i] \notin gen.existing

\* The loop of the manual task is at a candidate (scheduler.py 179-182).
ManAtCandidate == Running(man) /\ man.i <= Len(man.markets)

LLMLog(i, response) ==
    [k \in 1..Len(LLMCallsFor(response)) |->
        [i |-> i, response |-> LLMCallsFor(response)[k]]]

parse_scheduled_start(ms) ==
    /\ gen.pc = "idle"
    /\ man.pc = "idle"
    /\ generate_articles_job_start(ms)

parse_manual_start(ms) ==
    /\ gen.pc = "idle"
    /\ man.pc = "idle"
    /\ manual_refresh_start(ms)

scheduled_generation(response) ==
    /\ hist' = IF GenAtCandidate THEN hist \o LLMLog(gen.i, response)
               ELSE hist
    /\ generate_articles_job_body(OutcomeOf(response))
    /\ UNCHANGED <<backend, now, man, res, cap, up, stores, twin, kv, call,
                   src>>

manual_generation(response) ==
    /\ hist' = IF ManAtCandidate THEN hist \o LLMLog(man.i, response)
               ELSE hist
    /\ manual_refresh_body(OutcomeOf(response))
    /\ UNCHANGED <<backend, now, gen, res, cap, up, stores, twin, kv, call,
                   src>>

InitParse ==
    /\ backend \in Backends
    /\ articles \in TwinStores
    /\ now = 0
    /\ gen = GenIdle
    /\ man = ManIdle
    /\ res = ResIdle
    /\ cap = <<>>
    /\ up = NoUpserts
    /\ stores = NoStores
    /\ hist = <<>>
    /\ twin = NoTwin
    /\ kv = NoEntries
    /\ call = NoCall
    /\ src = NoSource

NextParse ==
    \/ \E ms \in MarketLists(ClosingTickers) : parse_scheduled_start(ms)
    \/ \E response \in LLMResponses : scheduled_generation(response)
    \/ \E ms \in MarketLists(ClosingTickers) : parse_manual_start(ms)
    \/ \E response \in LLMResponses : manual_generation(response)

SpecParse == InitParse /\ [][NextParse]_vars

\* The response is no JSON object: text that does not parse, or JSON of
\* another kind.
Unparseable(response) == response \in {"text", "array"}

\* C24: a step of a generation cycle in which the LLM's response cannot be
\* parsed into an object calls the LLM once, stores nothing and counts
\* nothing as generated, and the stored collection is after the step what
\* it was before; in the whole cycle the LLM is called at most once for one
\* candidate.
C24_ParseFailureDiscards ==
    [][/\ \A k \in (Len(hist) + 1)..Len(hist') :
             Unparseable(hist'[k].response) =>
                 /\ Len(hist') = Len(hist) + 1
                 /\ articles' = articles
                 /\ gen'.count = gen.count /\ gen'.stored = gen.stored
                 /\ man'.count = man.count /\ man'.stored = man.stored
       /\ \A k, l \in 1..Len(hist') : hist'[k].i = hist'[l].i => k = l
      ]_vars

\* C24 witness: a scheduled cycle has ended in which the first candidate's
\* response did not parse and the second candidate's article was stored.
C24_Witness ==
    /\ gen.pc = "done"
    /\ Len(hist) = 2
    /\ Unparseable(hist[1].response)
    /\ hist[2].response = "fenced_object"
    /\ gen.stored = {2}
    /\ gen.invoked = {1, 2}

----------------------------------------------------------------------------
(* SpecId: the id of an analysis item (article_generator.py 325-330).  The *)
(* generator is called for any ticker at any instant and its article is    *)
(* upserted; `hist` is the list of the generations so far: the ticker, the *)
(* instant, the id and the text that was hashed.                           *)

\* The tickers as text.  Tickers of the source hold hyphens and digits, so
\* one ticker may be another ticker followed by "-" and digits.
TickerText(ticker) ==
    CASE ticker = "T1" -> <<"A">>
      [] ticker = "T2" -> <<"A", "-", "0">>
      [] ticker = "T3" -> <<"A", "-", "0", "0">>
      [] ticker = "T4" -> <<"A", "0">>

\* line 328: utcnow().strftime("%Y%m%d%H"), digits of a fixed width naming
\* the hour of the instant.
strftime_YmdH(t) == <<(t \div HourLen) \div 10, (t \div HourLen) % 10>>

\* line 329: f"{ticker}-{timestamp}", the text whose md5 digest, cut to 12
\* hex digits, is the id.  The digest is taken to differ where the text does.
hash_input(ticker, t) == TickerText(ticker) \o <<"-">> \o strftime_YmdH(t)

Generation(ticker, t) ==
    [ticker     |-> ticker,
     at         |-> t,
     id         |-> generate_article(ticker, t).id,
     hash_input |-> hash_input(ticker, t)]

id_generate(ticker) ==
    /\ Len(hist) < MaxStoreOps
    /\ articles' = add_article(backend, articles, generate_article(ticker, now))
    /\ hist' = Append(hist, Generation(ticker, now))
    /\ UNCHANGED <<backend, now, gen, man, res, cap, up, stores, twin, kv,
                   call, src>>

InitId ==
    /\ backend \in Backends
    /\ articles = <<>>
    /\ now = 0
    /\ gen = GenIdle
    /\ man = ManIdle
    /\ res = ResIdle
    /\ cap = <<>>
    /\ up = NoUpserts
    /\ stores = NoStores
    /\ hist = <<>>
    /\ twin = NoTwin
    /\ kv = NoEntries
    /\ call = NoCall
    /\ src = NoSource

NextId ==
    \/ \E ticker \in Tickers : id_generate(ticker)
    \/ Tick

SpecId == InitId /\ [][NextId]_vars

\* The UTC hour an instant falls in.
HourOf(t) == t \div HourLen

RecordsWithId(id) == {i \in 1..Len(articles) : articles[i].id = id}

\* C25: the id of an analysis item is a function of the ticker and of the
\* hour of its generation: two generations for one ticker have the same id
\* exactly when they fall in the same hour, the store holds one record under
\* the id of every generation, and two generations hash the same text
\* exactly when their ticker and hour are the same.
C25_IdIsTickerAndHour ==
    \A k, l \in 1..Len(hist) :
        /\ hist[k].ticker = hist[l].ticker =>
               (hist[k].id = hist[l].id <=> HourOf(hist[k].at) = HourOf(hist[l].at))
        /\ Cardinality(RecordsWithId(hist[k].id)) = 1
        /\ hist[k].hash_input = hist[l].hash_input <=>
               /\ hist[k].ticker = hist[l].ticker
               /\ HourOf(hist[k].at) = HourOf(hist[l].at)
        /\ hist[k].hash_input = hist[l].hash_input <=> hist[k].id = hist[l].id

\* C25 witness: one ticker was generated for at two instants of one hour and
\* once more in the next hour, and the store holds two records.
C25_Witness ==
    /\ Len(hist) = 3
    /\ hist[1].ticker = hist[2].ticker /\ hist[2].ticker = hist[3].ticker
    /\ hist[1].at # hist[2].at
    /\ HourOf(hist[1].at) = HourOf(hist[2].at)
    /\ HourOf(hist[3].at) # HourOf(hist[2].at)
    /\ Len(articles) = 2

----------------------------------------------------------------------------
(* The guard of the resolution transition, checked under Spec *)

\* The close_time of the item is the present instant or a later one.
NotYetClosed(article) == article.close_time >= now

\* The stored item keeps its status and its results_article_id in the step.
KeptInStore(article) ==
    \A j \in 1..Len(articles') :
        articles'[j].id = article.id =>
            /\ articles'[j].status = article.status
            /\ articles'[j].results_article_id = article.results_article_id

\* C26: in no step of a resolution-check cycle does an item whose close_time
\* is the present instant or later change its status or its
\* results_article_id, neither in the task's listing nor in the store, and
\* the loop counts no such item as flipped or linked.
C26_FiresOnlyAfterClose ==
    [][Running(res) =>
          /\ \A i \in 1..Len(articles) :
                 NotYetClosed(articles[i]) => KeptInStore(articles[i])
          /\ \A i \in 1..Len(res.articles) :
                 NotYetClosed(res.articles[i]) =>
                     /\ res'.articles[i] = res.articles[i]
                     /\ i \notin res'.flipped \cup res'.linked
      ]_vars

\* C26 witness: a resolution-check cycle that began at the instant an active
\* item closes has ended at that instant; it flipped an item closed before
\* and the item closing now is stored as active with no results item.
C26_Witness ==
    /\ ResDone
    /\ res.t0 = now
    /\ res.flipped # {}
    /\ \E i \in 1..Len(res.articles) :
           /\ res.articles[i].article_type = "analysis"
           /\ res.articles[i].close_time = now
           /\ i \notin res.flipped
           /\ LET a == Stored(res.articles[i].id) IN
              /\ a # NoneVal
              /\ a.status = "active"
              /\ a.results_article_id = NoneVal

----------------------------------------------------------------------------
(* SpecResults: manual refreshes over two hours fill the store, then one   *)
(* resolution-check cycle runs in which the source answers every fetch     *)
(* with some resolution data and the results generator returns an item or  *)
(* None.  `hist` is the log of the results generator's calls: the position *)
(* of the item and the data it was called with.                            *)

\* What get_market returns (kalshi_client.py 120-128): None, or the market
\* with its `result`: absent, empty while the market is unsettled, or the
\* outcome.
MarketData ==
    {NoneVal} \cup {[result |-> r] : r \in {<<>>, <<"">>, <<"yes">>, <<"no">>}}

\* What generate_results_article returns: an item, or None.
ResultsReturns == {"article", "None"}

\* line 132: market_data.get("result") is truthy.
CarriesOutcome(market_data) ==
    /\ market_data.result # <<>>
    /\ market_data.result # <<"">>

\* Mutant: the results generator is called for any market the fetch returns.
InvokesResultsGenerator_AnyMarket(market_data) == market_data # NoneVal

\* lines 130-133: the results generator is called when the fetch returned a
\* market and its result is truthy.
InvokesResultsGenerator(market_data) ==
    market_data # NoneVal /\ CarriesOutcome(market_data)

\* lines 129-143: what the fetch and the generator come to for one due item.
ResOutcomeOf(market_data, returned) ==
    IF market_data = NoneVal THEN "fetch_fail"
    ELSE IF ~InvokesResultsGenerator(market_data) THEN "no_result"
    ELSE IF returned = "article" THEN "ok"
    ELSE "gen_fail"

\* The loop is at a due item with budget left: it fetches (lines 120-129).
ResAtFetch ==
    /\ Running(res)
    /\ res.i <= Len(res.articles)
    /\ IsDue(res.articles[res.i], now)
    /\ ResultsBudgetLeft(res.results_generated)

results_manual_start(ms) ==
    /\ res.pc = "idle"
    /\ ~Running(man)
    /\ manual_refresh_start(ms)

results_check_start ==
    /\ res.pc = "idle"
    /\ ~Running(man)
    /\ check_resolutions_job_start

results_check_step(market_data, returned) ==
    /\ hist' = IF ResAtFetch /\ InvokesResultsGenerator(market_data)
               THEN Append(hist, [i |-> res.i, market_data |-> market_data])
               ELSE hist
    /\ check_resolutions_job_body(ResOutcomeOf(market_data, returned))
    /\ UNCHANGED <<backend, now, gen, man, cap, up, stores, twin, kv, call,
                   src>>

results_tick == ~Running(man) /\ Tick

InitResults ==
    /\ backend \in Backends
    /\ articles = <<>>
    /\ now = 0
    /\ gen = GenIdle
    /\ man = ManIdle
    /\ res = ResIdle
    /\ cap = <<>>
    /\ up = NoUpserts
    /\ stores = NoStores
    /\ hist = <<>>
    /\ twin = NoTwin
    /\ kv = NoEntries
    /\ call = NoCall
    /\ src = NoSource

NextResults ==
    \/ \E ms \in MarketLists(ClosingTickers) : results_manual_start(ms)
    \/ manual_refresh_step("ok")
    \/ results_check_start
    \/ \E market_data \in MarketData, returned \in ResultsReturns :
           results_check_step(market_data, returned)
    \/ results_tick

SpecResults == InitResults /\ [][NextResults]_vars

\* The results items the store holds that it did not hold when the cycle
\* began.
NewResultsItems ==
    {id \in Ids(articles) \ Ids(res.pre) :
        Stored(id) # NoneVal /\ Stored(id).article_type = "results"}

\* C27: a resolution-check cycle generates and stores at most
\* MAX_RESULTS_ARTICLES_TO_GENERATE results items; when it has ended, every
\* item that was due when it began is resolved in the listing and in the
\* store, whether or not the bound was reached before it; and the results
\* generator was called only with resolution data that carries an outcome.
C27_BoundedResultsAllFlipped ==
    /\ res.results_generated <= MAX_RESULTS_ARTICLES_TO_GENERATE
    /\ Cardinality(res.linked) <= MAX_RESULTS_ARTICLES_TO_GENERATE
    /\ Cardinality(NewResultsItems) <= MAX_RESULTS_ARTICLES_TO_GENERATE
    /\ ResDone =>
           \A k \in 1..Len(res.articles) :
               IsDue(get_all_articles(backend, res.pre)[k], res.t0) =>
                   /\ res.articles[k].status = "resolved"
                   /\ k \in res.flipped
                   /\ Stored(res.articles[k].id) # NoneVal
                   /\ Stored(res.articles[k].id).status = "resolved"
    /\ \A n \in 1..Len(hist) :
           /\ hist[n].market_data # NoneVal
           /\ hist[n].market_data.result \in {<<"yes">>, <<"no">>}
    /\ res.linked \subseteq {hist[n].i : n \in 1..Len(hist)}

\* C27 witness: a cycle has ended that generated as many results items as
\* the bound allows and then flipped one more due item without a fetch; all
\* the items it flipped are stored as resolved.
C27_Witness ==
    /\ ResDone
    /\ res.results_generated = MAX_RESULTS_ARTICLES_TO_GENERATE
    /\ Len(hist) >= MAX_RESULTS_ARTICLES_TO_GENERATE
    /\ res.flipped \ (res.linked \cup res.failed) # {}
    /\ \A k \in res.flipped : Stored(res.articles[k].id).status = "resolved"

----------------------------------------------------------------------------
(* SpecForms: the close_time the source reports is stored as it came       *)
(* (article_generator.py 217) and is read again by the resolution check    *)
(* (scheduler.py 114-120, 147-148, 156-157).  An item carries the form of  *)
(* its close_time next to the instant it names: an ISO text with a UTC     *)
(* offset, nothing, a JSON number, a text that is no date, or an ISO text  *)
(* without an offset.                                                      *)

CloseTimeForms == {"aware", "missing", "number", "garbage", "naive"}

\* cache.py 284: the close_time column is TEXT, a number is stored as its
\* digits; the file and redis backends keep the JSON value.
StoredForm(b, form) ==
    IF b = "postgres" /\ form = "number" THEN "garbage" ELSE form

WithForm(article, form) == [close_time_form |-> form] @@ article

FormOf(article) ==
    IF "close_time_form" \in DOMAIN article THEN article.close_time_form
    ELSE "aware"

\* scheduler.py 114-120, 147-148, 156-157: what reading the close_time of an
\* item comes to.  A falsy value is passed over (115); fromisoformat raises
\* ValueError on a text that is no date and the comparison with an aware
\* `now` raises TypeError on a naive one, both caught at 147; a number has
\* no .replace, and the AttributeError is caught only by the handler of the
\* whole job at 156.
CloseTimeHandling(article) ==
    CASE FormOf(article) = "aware"                  -> "compare"
      [] FormOf(article) \in {"missing"}            -> "pass"
      [] FormOf(article) \in {"garbage", "naive"}   -> "caught"
      [] FormOf(article) = "number"                 -> "job_fails"

\* lines 104-111: the tests before the close_time is read.
SkippedBeforeCloseTime(article) ==
    \/ article.article_type = "results"
    \/ article.status = "resolved"

forms_generate(ticker, form) ==
    /\ res.pc = "idle"
    /\ Len(hist) < MaxStoreOps
    /\ articles' = add_article(backend, articles,
                       WithForm(generate_article(ticker, now),
                                StoredForm(backend, form)))
    /\ hist' = Append(hist, <<ticker, form>>)
    /\ UNCHANGED <<backend, now, gen, man, res, cap, up, stores, twin, kv,
                   call, src>>

forms_check_start ==
    /\ res.pc = "idle"
    /\ check_resolutions_job_start

forms_check_step(outcome) ==
    /\ Running(res)
    /\ IF res.i > Len(res.articles)
       THEN check_resolutions_job_body(outcome)
       ELSE LET article == res.articles[res.i] IN
            IF SkippedBeforeCloseTime(article)
               \/ CloseTimeHandling(article) = "compare"
            THEN check_resolutions_job_body(outcome)
            ELSE IF CloseTimeHandling(article) = "job_fails"
            THEN \* lines 156-157: the job logs and returns, line 152 is
                 \* not reached
                 /\ res' = [res EXCEPT !.pc = "done"]
                 /\ UNCHANGED articles
            ELSE /\ res' = [res EXCEPT !.i = @ + 1]
                 /\ UNCHANGED articles
    /\ UNCHANGED <<backend, now, gen, man, cap, up, stores, hist, twin, kv,
                   call, src>>

InitForms ==
    /\ backend \in Backends
    /\ articles = <<>>
    /\ now = 0
    /\ gen = GenIdle
    /\ man = ManIdle
    /\ res = ResIdle
    /\ cap = <<>>
    /\ up = NoUpserts
    /\ stores = NoStores
    /\ hist = <<>>
    /\ twin = NoTwin
    /\ kv = NoEntries
    /\ call = NoCall
    /\ src = NoSource

NextForms ==
    \/ \E ticker \in ClosingTickers, form \in CloseTimeForms :
           forms_generate(ticker, form)
    \/ forms_check_start
    \/ \E o \in ResOutcomes : forms_check_step(o)
    \/ Tick

SpecForms == InitForms /\ [][NextForms]_vars

\* The listing the cycle began with holds an item whose close_time cannot
\* be read.
HasBadItem ==
    \E k \in 1..Len(res.pre) : FormOf(res.pre[k]) # "aware"

----------------------------------------------------------------------------
(* SpecRace: one scheduled generation cycle and one manual refresh over    *)
(* one store, their steps interleaved in any order while the clock runs.   *)
(* An upsert is one step here (SpecConc splits it).  `hist` is the list of *)
(* the items stored: the task, the ticker and the instant.                 *)

StoredBy(task, ticker) == [task |-> task, ticker |-> ticker, at |-> now]

\* scheduler.py 21-48, started while the manual refresh has not returned.
race_scheduled_start(ms) ==
    /\ gen.pc = "idle"
    /\ man.pc # "done"
    /\ generate_articles_job_start(ms)

\* scheduler.py 160-178, started while the scheduled cycle has not ended.
race_manual_start(ms) ==
    /\ man.pc = "idle"
    /\ gen.pc # "done"
    /\ manual_refresh_start(ms)

race_scheduled_step(outcome) ==
    /\ hist' = IF GenAtCandidate /\ outcome = "ok"
               THEN Append(hist, StoredBy("scheduled", gen.markets[gen.i]))
               ELSE hist
    /\ generate_articles_job_body(outcome)
    /\ UNCHANGED <<backend, now, man, res, cap, up, stores, twin, kv, call,
                   src>>

race_manual_step(outcome) ==
    /\ hist' = IF ManAtCandidate /\ outcome = "ok"
               THEN Append(hist, StoredBy("manual", man.markets[man.i]))
               ELSE hist
    /\ manual_refresh_body(outcome)
    /\ UNCHANGED <<backend, now, gen, res, cap, up, stores, twin, kv, call,
                   src>>

InitRace ==
    /\ backend \in Backends
    /\ articles = <<>>
    /\ now = 0
    /\ gen = GenIdle
    /\ man = ManIdle
    /\ res = ResIdle
    /\ cap = <<>>
    /\ up = NoUpserts
    /\ stores = NoStores
    /\ hist = <<>>
    /\ twin = NoTwin
    /\ kv = NoEntries
    /\ call = NoCall
    /\ src = NoSource

NextRace ==
    \/ \E ms \in MarketLists(ClosingTickers) : race_scheduled_start(ms)
    \/ \E o \in {"ok", "none"} : race_scheduled_step(o)
    \/ \E ms \in MarketLists(ClosingTickers) : race_manual_start(ms)
    \/ \E o \in {"ok", "none"} : race_manual_step(o)
    \/ Tick

SpecRace == InitRace /\ [][NextRace]_vars

\* Both tasks have run to their end, and each had read what it reads of the
\* store before the other wrote: the scheduled cycle built its set of
\* covered tickers from the store as it was before either task stored an
\* item, and so began the manual refresh, which reads nothing.
Raced ==
    /\ gen.pc = "done"
    /\ man.pc = "done"
    /\ gen.pre = <<>>
    /\ man.pre = <<>>

AnalysisItemsFor(ticker) ==
    {i \in 1..Len(articles) : /\ articles[i].article_type = "analysis"
                              /\ articles[i].market_ticker = ticker}

\* C32: when a scheduled cycle and a manual refresh have raced and each has
\* stored an analysis item for one ticker, the store holds two analysis
\* items for that ticker, under different ids, if the two generations fell
\* in different hours, and one if they fell in the same hour.
C32_RaceLeavesDuplicates ==
    Raced =>
        \A k, l \in 1..Len(hist) :
            (/\ hist[k].task = "scheduled"
             /\ hist[l].task = "manual"
             /\ hist[k].ticker = hist[l].ticker) =>
                LET items == AnalysisItemsFor(hist[k].ticker) IN
                /\ Cardinality(items) =
                       IF HourOf(hist[k].at) # HourOf(hist[l].at) THEN 2 ELSE 1
                /\ \A i, j \in items : articles[i].id = articles[j].id => i = j

\* C32 witness: the two tasks have raced and the store holds two analysis
\* items for one ticker under different ids, one stored by each task.
C32_Witness ==
    /\ Raced
    /\ \E k, l \in 1..Len(hist) :
           /\ hist[k].task = "scheduled"
           /\ hist[l].task = "manual"
           /\ hist[k].ticker = hist[l].ticker
           /\ \E i, j \in AnalysisItemsFor(hist[k].ticker) :
                  /\ articles[i].id # articles[j].id
                  /\ articles[i].id = _generate_article_id(hist[k].ticker, hist[k].at)
                  /\ articles[j].id = _generate_article_id(hist[l].ticker, hist[l].at)

----------------------------------------------------------------------------
(* SpecOrigin: a resolution-check cycle over a store that holds as many    *)
(* items as the file and redis backends keep: analysis items of one hour,  *)
(* one per market, all closed when the cycle runs.  `hist` is the list of  *)
(* the results items generated: the item, the analysis item passed to the  *)
(* generator, and whether the store held that item at that moment.         *)

\* The store after max_articles generation cycles, the newest item first.
FullStore ==
    [k \in 1..max_articles |->
        generate_article(DurableMarkets[max_articles + 1 - k], 0)]

\* scheduler.py 135-138: the call of the results generator for the item the
\* loop is at, with the store as it is at that moment.
ResultsGeneration ==
    LET original == MarkResolved(res.articles[res.i]) IN
    [item     |-> generate_results_article(original.market_ticker, now,
                                           original),
     original |-> original,
     at       |-> now,
     present  |-> Stored(original.id) # NoneVal]

origin_check_start ==
    /\ res.pc = "idle"
    /\ check_resolutions_job_start

origin_check_step(outcome) ==
    /\ hist' = IF ResAtFetch /\ outcome = "ok"
               THEN Append(hist, ResultsGeneration)
               ELSE hist
    /\ check_resolutions_job_body(outcome)
    /\ UNCHANGED <<backend, now, gen, man, cap, up, stores, twin, kv, call,
                   src>>

InitOrigin ==
    /\ backend \in Backends
    /\ articles = FullStore
    /\ now = MaxTime
    /\ gen = GenIdle
    /\ man = ManIdle
    /\ res = ResIdle
    /\ cap = <<>>
    /\ up = NoUpserts
    /\ stores = NoStores
    /\ hist = <<>>
    /\ twin = NoTwin
    /\ kv = NoEntries
    /\ call = NoCall
    /\ src = NoSource

NextOrigin ==
    \/ origin_check_start
    \/ \E o \in {"ok", "no_result"} : origin_check_step(o)

SpecOrigin == InitOrigin /\ [][NextOrigin]_vars

AnalysisIds(s) ==
    {s[i].id : i \in {j \in 1..Len(s) : s[j].article_type = "analysis"}}

\* C33: every results item generated has the id of the analysis scheme for
\* its ticker and hour with "-results" appended, an id no analysis item
\* has; its type is results and its status resolved; its
\* original_article_id is the id of the analysis item passed to the
\* generator, and the store held that item when the results item was
\* generated.
C33_ResultsItemNamesStoredOrigin ==
    \A n \in 1..Len(hist) :
        LET r == hist[n].item IN
        /\ r.id = Append(_generate_article_id(r.market_ticker, hist[n].at),
                         "-results")
        /\ r.id \notin AnalysisIds(articles) \cup AnalysisIds(res.articles)
        /\ r.article_type = "results"
        /\ r.status = "resolved"
        /\ r.original_article_id = hist[n].original.id
        /\ hist[n].present

----------------------------------------------------------------------------
(* The frame of a resolution-check cycle *)

\* The item as it would be with the status and the link of `p`.
ButStatusAndLink(a, p) ==
    [a EXCEPT !.status = p.status,
              !.results_article_id = p.results_article_id]

\* What a cycle may do to an item it found stored as `p`: nothing, or, when
\* `p` is an active analysis item whose close_time has passed, flip its
\* status to resolved and set its results_article_id.
FrameKept(p, a) ==
    /\ a # NoneVal
    /\ IF IsDue(p, now)
       THEN /\ ButStatusAndLink(a, p) = p
            /\ a.status \in {p.status, "resolved"}
            /\ a.results_article_id # p.results_article_id =>
                   a.status = "resolved"
       ELSE a = p

----------------------------------------------------------------------------
(* SpecFrame: manual refreshes and resolution-check cycles, one task at a  *)
(* time, the clock advancing between them; the results generator writes    *)
(* one of two titles.                                                      *)

ResultsTitles == {"first title", "second title"}

\* `hist` is the list of the tasks started so far.
frame_manual_start(ms) ==
    /\ NoTaskRunning
    /\ Len(hist) < MaxTasks
    /\ manual_refresh_begin(ms)
    /\ hist' = Append(hist, "manual")
    /\ UNCHANGED <<backend, articles, now, cap, up, stores, twin, kv, call,
                   src>>

frame_check_start ==
    /\ NoTaskRunning
    /\ Len(hist) < MaxTasks
    /\ check_resolutions_job_begin
    /\ hist' = Append(hist, "check")
    /\ UNCHANGED <<backend, articles, now, cap, up, stores, twin, kv, call,
                   src>>

frame_check_step(outcome, title) ==
    /\ check_resolutions_job_with(outcome, [title |-> title])
    /\ UNCHANGED <<backend, now, gen, man, cap, up, stores, hist, twin, kv,
                   call, src>>

\* The clock advances between two tasks.
frame_tick == NoTaskRunning /\ Tick

InitFrame ==
    /\ backend \in Backends
    /\ articles = <<>>
    /\ now = 0
    /\ gen = GenIdle
    /\ man = ManIdle
    /\ res = ResIdle
    /\ cap = <<>>
    /\ up = NoUpserts
    /\ stores = NoStores
    /\ hist = <<>>
    /\ twin = NoTwin
    /\ kv = NoEntries
    /\ call = NoCall
    /\ src = NoSource

NextFrame ==
    \/ \E ms \in MarketLists(ClosingTickers) : frame_manual_start(ms)
    \/ manual_refresh_step("ok")
    \/ frame_check_start
    \/ \E o \in {"ok", "no_result"}, title \in ResultsTitles :
           frame_check_step(o, title)
    \/ frame_tick

SpecFrame == InitFrame /\ [][NextFrame]_vars

\* C34: when a resolution-check cycle has ended, every item that was stored
\* when it began is stored as it was, but for the status, flipped to
\* resolved, and the results_article_id of the analysis items that were
\* active with their close_time passed; and a cycle that flipped no item has
\* left the stored collection as it was.
C34_CycleChangesOnlyStatusAndLink ==
    ResDone =>
        /\ \A k \in 1..Len(res.pre) :
               FrameKept(res.pre[k], Stored(res.pre[k].id))
        /\ res.flipped = {} => articles = res.pre

\* C34 witness: a cycle has ended that flipped and linked a due item whose
\* results item was generated under the id of a results item stored before
\* the cycle, and that passed over an item not yet due.
C34_Witness ==
    /\ ResDone
    /\ \E k \in 1..Len(res.pre), i \in res.linked :
           /\ res.pre[k].article_type = "results"
           /\ res.articles[i].results_article_id = res.pre[k].id
    /\ \E k \in 1..Len(res.pre) :
           /\ res.pre[k].article_type = "analysis"
           /\ res.pre[k].status = "active"
           /\ ~IsDue(res.pre[k], now)

----------------------------------------------------------------------------
(* SpecProvider: the deployment names its LLM provider (config.py 15) and  *)
(* the scheduled task asks for the generator before it fetches anything    *)
(* (scheduler.py 28-31).  `call` holds the provider, the client the        *)
(* generator singleton has (article_generator.py 333-341), the error the   *)
(* last construction raised and the candidates of the cycle.               *)

\* config.py 14-15: the providers the configuration names as supported;
\* "groq" is the value of LLM_PROVIDER when the environment sets none.
DocumentedProviders == {"openai", "anthropic", "groq"}

\* article_generator.py 121-137: the client of the provider, or the error
\* raised (the packages are taken to be installed).
_setup_client(provider) ==
    CASE provider = "anthropic" -> [client |-> "anthropic", error |-> "none"]
      [] provider = "openai"    -> [client |-> "openai", error |-> "none"]
      [] OTHER                  -> [client |-> "unset", error |-> "ValueError"]

\* article_generator.py 336-341: the singleton is built on the first call
\* and kept when the construction returned.
get_generator ==
    IF call.client # "unset" THEN [client |-> call.client, error |-> "none"]
    ELSE _setup_client(call.provider)

\* scheduler.py 28-48, 79-80: the start of a scheduled cycle.  When
\* get_generator raises, the handler of the job logs and the job returns.
provider_scheduled_start(ms) ==
    /\ ~Running(gen)
    /\ call' = [call EXCEPT !.client = get_generator.client,
                            !.error = get_generator.error,
                            !.candidates = ms]
    /\ IF get_generator.error = "none"
       THEN generate_articles_job_begin(ms)
       ELSE /\ gen' = [GenIdle EXCEPT !.pc = "done", !.pre = articles]
            /\ UNCHANGED <<man, res>>
    /\ UNCHANGED <<backend, articles, now, cap, up, stores, hist, twin, kv,
                   src>>

InitProvider ==
    /\ backend \in Backends
    /\ articles = <<>>
    /\ now = 0
    /\ gen = GenIdle
    /\ man = ManIdle
    /\ res = ResIdle
    /\ cap = <<>>
    /\ up = NoUpserts
    /\ stores = NoStores
    /\ hist = <<>>
    /\ twin = NoTwin
    /\ kv = NoEntries
    /\ call \in {[provider |-> p, client |-> "unset", error |-> "none",
                  candidates |-> <<>>] : p \in DocumentedProviders}
    /\ src = NoSource

NextProvider ==
    \/ \E ms \in MarketLists(ClosingTickers) : provider_scheduled_start(ms)
    \/ \E o \in {"ok", "none"} : generate_articles_job_step(o)
    \/ Tick

SpecProvider == InitProvider /\ [][NextProvider]_vars

\* C35: under every documented provider, a scheduled cycle that has started
\* has a generator with the client of that provider and no construction
\* error, and a cycle with candidates that has ended has visited a
\* candidate.
C35_DocumentedProviderConstructs ==
    gen.pc \in {"loop", "done"} =>
        /\ call.error = "none"
        /\ call.client = call.provider
        /\ (gen.pc = "done" /\ call.candidates # <<>>) =>
               gen.invoked \cup gen.skipped # {}

----------------------------------------------------------------------------
(* SpecLive: one generation cycle, scheduled or manual, over the           *)
(* candidates fetched from a source that offers up to MaxSourceMarkets     *)
(* markets, and one resolution-check cycle after it.  Every call the       *)
(* tasks make returns, so a task that is in its loop takes its next step.  *)
(* `hist` is the list of the generator calls and of the items visited: the *)
(* task and the position in its list.                                      *)

\* The first n markets of the source.
SourceList(n) == SubSeq(DurableMarkets, 1, n)

\* Mutant: the candidates are all the source offers.
FetchedCandidates_Untruncated(n) == SourceList(n)

\* scheduler.py 34, 172 with kalshi_client.py 220: the candidates are the
\* first MAX_MARKETS_TO_FETCH of what the source offers.
FetchedCandidates(n) == Take(SourceList(n), MAX_MARKETS_TO_FETCH)

live_scheduled_start(n) ==
    /\ gen.pc = "idle" /\ man.pc = "idle" /\ res.pc = "idle"
    /\ generate_articles_job_start(FetchedCandidates(n))

live_manual_start(n) ==
    /\ gen.pc = "idle" /\ man.pc = "idle" /\ res.pc = "idle"
    /\ manual_refresh_start(FetchedCandidates(n))

live_scheduled_step(outcome) ==
    /\ hist' = IF GenAtCandidate THEN Append(hist, <<"scheduled", gen.i>>)
               ELSE hist
    /\ generate_articles_job_body(outcome)
    /\ UNCHANGED <<backend, now, man, res, cap, up, stores, twin, kv, call,
                   src>>

live_manual_step(outcome) ==
    /\ hist' = IF ManAtCandidate THEN Append(hist, <<"manual", man.i>>)
               ELSE hist
    /\ manual_refresh_body(outcome)
    /\ UNCHANGED <<backend, now, gen, res, cap, up, stores, twin, kv, call,
                   src>>

live_check_start ==
    /\ res.pc = "idle"
    /\ ~Running(gen) /\ ~Running(man)
    /\ check_resolutions_job_start

live_check_step(outcome) ==
    /\ hist' = IF Running(res) /\ res.i <= Len(res.articles)
               THEN Append(hist, <<"check", res.i>>)
               ELSE hist
    /\ check_resolutions_job_body(outcome)
    /\ UNCHANGED <<backend, now, gen, man, cap, up, stores, twin, kv, call,
                   src>>

\* Time passes between the generation cycle and the resolution-check cycle.
live_tick ==
    /\ gen.pc = "done" \/ man.pc = "done"
    /\ res.pc = "idle"
    /\ Tick

InitLive ==
    /\ backend \in Backends
    /\ articles = <<>>
    /\ now = 0
    /\ gen = GenIdle
    /\ man = ManIdle
    /\ res = ResIdle
    /\ cap = <<>>
    /\ up = NoUpserts
    /\ stores = NoStores
    /\ hist = <<>>
    /\ twin = NoTwin
    /\ kv = NoEntries
    /\ call = NoCall
    /\ src = NoSource

ScheduledSteps == \E o \in {"ok", "none"} : live_scheduled_step(o)
ManualSteps == \E o \in {"ok", "none"} : live_manual_step(o)
CheckSteps == \E o \in {"ok", "no_result"} : live_check_step(o)

NextLive ==
    \/ \E n \in 0..MaxSourceMarkets : live_scheduled_start(n)
    \/ ScheduledSteps
    \/ \E n \in 0..MaxSourceMarkets : live_manual_start(n)
    \/ ManualSteps
    \/ live_check_start
    \/ CheckSteps
    \/ live_tick

SpecLive ==
    /\ InitLive /\ [][NextLive]_vars
    /\ WF_vars(ScheduledSteps) /\ WF_vars(ManualSteps) /\ WF_vars(CheckSteps)

Times(task, i) ==
    Cardinality({n \in 1..Len(hist) : hist[n] = <<task, i>>})

CallsOf(task) ==
    Cardinality({n \in 1..Len(hist) : hist[n][1] = task})

\* The bounds of a cycle: the generator is called at most once for a
\* candidate and at most MAX_MARKETS_TO_FETCH times in a cycle, and a
\* resolution-check cycle that has ended has visited every item of its
\* listing once.
CycleBounds ==
    /\ \A i \in 1..MaxSourceMarkets :
           Times("scheduled", i) <= 1 /\ Times("manual", i) <= 1
    /\ CallsOf("scheduled") <= MAX_MARKETS_TO_FETCH
    /\ CallsOf("manual") <= MAX_MARKETS_TO_FETCH
    /\ gen.pc # "idle" => CallsOf("scheduled") <= Len(gen.markets)
    /\ man.pc # "idle" => CallsOf("manual") <= Len(man.markets)
    /\ \A i \in 1..Len(res.articles) : Times("check", i) <= 1
    /\ ResDone => \A i \in 1..Len(res.articles) : Times("check", i) = 1

\* C36: when every call returns, a generation cycle and a resolution-check
\* cycle that have begun come to their end, and in every state the bounds
\* of a cycle hold.
C36_CyclesTerminate ==
    /\ []CycleBounds
    /\ ~NoTaskRunning ~> NoTaskRunning

\* C36 witness: a scheduled cycle has called the generator for every one of
\* MAX_MARKETS_TO_FETCH candidates, and the resolution-check cycle after it
\* has ended over a listing of two items, each visited.
C36_Witness ==
    /\ CallsOf("scheduled") = MAX_MARKETS_TO_FETCH
    /\ ResDone
    /\ Len(res.articles) = 2
    /\ CallsOf("check") = 2
    /\ res.flipped # {}

----------------------------------------------------------------------------
(* SpecOverlap: the scheduled generation task and the resolution-check     *)
(* task of init_scheduler (scheduler.py 200-233) run at the same time over *)
(* one store; each call of the store is one step.  `hist` lists the ids    *)
(* the generation task has upserted since the resolution-check cycle in    *)
(* progress began.                                                         *)

overlap_scheduled_start(ms) ==
    /\ ~Running(gen)
    /\ generate_articles_job_start(ms)

overlap_scheduled_step(outcome) ==
    /\ hist' = IF GenAtCandidate /\ outcome = "ok" /\ Running(res)
               THEN Append(hist,
                           generate_article(gen.markets[gen.i], now).id)
               ELSE hist
    /\ generate_articles_job_body(outcome)
    /\ UNCHANGED <<backend, now, man, res, cap, up, stores, twin, kv, call,
                   src>>

overlap_check_start ==
    /\ check_resolutions_job_begin
    /\ hist' = <<>>
    /\ UNCHANGED <<backend, articles, now, cap, up, stores, twin, kv, call,
                   src>>

InitOverlap ==
    /\ backend \in Backends
    /\ articles \in {st \in ConcStores : Len(st) <= 1}
    /\ now = 0
    /\ gen = GenIdle
    /\ man = ManIdle
    /\ res = ResIdle
    /\ cap = <<>>
    /\ up = NoUpserts
    /\ stores = NoStores
    /\ hist = <<>>
    /\ twin = NoTwin
    /\ kv = NoEntries
    /\ call = NoCall
    /\ src = NoSource

NextOverlap ==
    \/ \E ms \in MarketLists(ClosingTickers) : overlap_scheduled_start(ms)
    \/ \E o \in {"ok", "none"} : overlap_scheduled_step(o)
    \/ overlap_check_start
    \/ \E o \in {"ok", "no_result"} : check_resolutions_job_step(o)
    \/ Tick

SpecOverlap == InitOverlap /\ [][NextOverlap]_vars

UpsertedDuringCheck == {hist[n] : n \in 1..Len(hist)}

FlippedIds == {res.articles[i].id : i \in res.flipped}

\* C37: when the resolution-check cycle has ended, every analysis item the
\* generation task upserted while it was in progress is stored, and every
\* item the cycle flipped is stored as resolved, also after a generation
\* cycle that overlapped it has ended.
C37_OverlapKeepsWrites ==
    ResDone =>
        /\ \A id \in UpsertedDuringCheck : Stored(id) # NoneVal
        /\ \A id \in FlippedIds :
               /\ Stored(id) # NoneVal
               /\ Stored(id).status = "resolved"

----------------------------------------------------------------------------
(* SpecLater: resolution-check cycles one after another, and scheduled     *)
(* generation cycles between them, over a store of analysis items whose    *)
(* markets have closed.  `hist` lists the ids for which a cycle has        *)
(* fetched resolution data (scheduler.py 129), in the order of the         *)
(* fetches.                                                                *)

\* The analysis items of the closing markets, the later hour first.
LaterStore ==
    <<generate_article("T2", HourLen), generate_article("T1", HourLen),
      generate_article("T2", 0), generate_article("T1", 0)>>

later_scheduled_start(ms) ==
    /\ NoTaskRunning
    /\ generate_articles_job_start(ms)

later_check_start ==
    /\ NoTaskRunning
    /\ check_resolutions_job_start

later_check_step(outcome) ==
    /\ hist' = IF ResAtFetch THEN Append(hist, res.articles[res.i].id)
               ELSE hist
    /\ check_resolutions_job_body(outcome)
    /\ UNCHANGED <<backend, now, gen, man, cap, up, stores, twin, kv, call,
                   src>>

InitLater ==
    /\ backend \in Backends
    /\ articles \in SubSeqsOf(LaterStore)
    /\ now = MaxTime
    /\ gen = GenIdle
    /\ man = ManIdle
    /\ res = ResIdle
    /\ cap = <<>>
    /\ up = NoUpserts
    /\ stores = NoStores
    /\ hist = <<>>
    /\ twin = NoTwin
    /\ kv = NoEntries
    /\ call = NoCall
    /\ src = NoSource

NextLater ==
    \/ \E ms \in MarketLists(ClosingTickers) : later_scheduled_start(ms)
    \/ \E o \in {"ok", "none"} : generate_articles_job_step(o)
    \/ later_check_start
    \/ \E o \in ResOutcomes : later_check_step(o)

SpecLater == InitLater /\ [][NextLater]_vars

FetchesFor(id) == Cardinality({n \in 1..Len(hist) : hist[n] = id})

ResolvedUnlinked(id) ==
    /\ Stored(id) # NoneVal
    /\ Stored(id).article_type = "analysis"
    /\ Stored(id).status = "resolved"
    /\ Stored(id).results_article_id = NoneVal

LinkedAnalysisIds ==
    {id \in Ids(articles) :
        /\ Stored(id).article_type = "analysis"
        /\ Stored(id).results_article_id # NoneVal}

ResultsIdOf(id) == Stored(id).results_article_id

\* C39: after a resolution-check cycle, two different stored analysis items
\* that each name a results item name different ones, both results items
\* are stored, and each names as its origin the analysis item that names
\* it.
C39_DistinctResultsItems ==
    ResDone =>
        \A a, b \in LinkedAnalysisIds :
            a # b =>
                /\ ResultsIdOf(a) # ResultsIdOf(b)
                /\ Stored(ResultsIdOf(a)) # NoneVal
                /\ Stored(ResultsIdOf(a)).original_article_id = a

----------------------------------------------------------------------------
(* SpecKeys: set, delete and get calls on the key/value side of one        *)
(* backend (cache.py 57-111) while the clock runs.  `hist` is the last     *)
(* call: its name and its key.                                             *)

\* The keys of SpecKeys: those of SpecKV and one that differs from them in
\* its alphanumeric characters.
IsolationKeys == Keys \cup {"ab"}

keys_set(key, value, ttl) ==
    /\ kv' = [kv EXCEPT
                !.entries = set(backend, kv.entries, key, value, ttl, now)]
    /\ hist' = <<"set", key>>
    /\ UNCHANGED <<backend, articles, now, gen, man, res, cap, up, stores,
                   twin, call, src>>

keys_delete(key) ==
    /\ kv' = [kv EXCEPT !.entries = delete(backend, kv.entries, key)]
    /\ hist' = <<"delete", key>>
    /\ UNCHANGED <<backend, articles, now, gen, man, res, cap, up, stores,
                   twin, call, src>>

keys_get(key) ==
    /\ kv' = [kv EXCEPT !.entries = get(backend, kv.entries, key, now).entries]
    /\ hist' = <<"get", key>>
    /\ UNCHANGED <<backend, articles, now, gen, man, res, cap, up, stores,
                   twin, call, src>>

InitKeys ==
    /\ backend \in Backends
    /\ articles = <<>>
    /\ now = 0
    /\ gen = GenIdle
    /\ man = ManIdle
    /\ res = ResIdle
    /\ cap = <<>>
    /\ up = NoUpserts
    /\ stores = NoStores
    /\ hist = <<>>
    /\ twin = NoTwin
    /\ kv = [entries |-> {}, sets |-> [k \in Keys |-> NoneVal],
             got |-> NoneVal]
    /\ call = NoCall
    /\ src = NoSource

NextKeys ==
    \/ \E key \in IsolationKeys, value \in Values, ttl \in {NoneVal, <<1>>} :
          keys_set(key, value, ttl)
    \/ \E key \in IsolationKeys : keys_delete(key)
    \/ \E key \in IsolationKeys : keys_get(key)
    \/ Tick

SpecKeys == InitKeys /\ [][NextKeys]_vars

\* A set or a delete of key k1 is the step taken.
SetOrDeleteOf(k1) ==
    /\ hist' \in {<<"set", k1>>, <<"delete", k1>>}
    /\ now' = now

\* C40: on the file backend a set or a delete of one key leaves what get
\* returns for every other key as it was.
C40_FileKeysIsolated ==
    [][backend = "file" =>
          \A k1, k2 \in IsolationKeys :
              (k1 # k2 /\ SetOrDeleteOf(k1)) =>
                  get(backend, kv'.entries, k2, now).value
                      = get(backend, kv.entries, k2, now).value]_vars

====
